---- MODULE Spec2Model ----
(***************************************************************************)
(* ChatRepository (src/src/storage/repository.ts), Embedded (IndexedDB)    *)
(* variant, one execution context.  Within one context repository          *)
(* operations never overlap, so every action below is one whole call:      *)
(* its reads, its single readwrite transaction and its publishes.          *)
(*                                                                         *)
(* Encoding of values                                                      *)
(*   strings     sequences of one-character strings, so that trim and      *)
(*               startsWith are computed; a template literal is the        *)
(*               concatenation of its pieces                               *)
(*   string|null the empty sequence stands for null (title and text are    *)
(*               never stored as the empty string: `text || null`,         *)
(*               `title.trim() || "Untitled Group"`)                       *)
(*   number|null Null                                                      *)
(*   ids         createId gives a fresh random id; the model numbers the   *)
(*               records of a store 1, 2, ... in creation order            *)
(***************************************************************************)
EXTENDS Integers, Sequences, FiniteSets, TLC

VARIABLES
    profiles,         \* object store "profiles", by id
    chats,            \* object store "chats", in key order (what getAll returns)
    memberships,      \* object store "memberships"
    messages,         \* object store "messages"
    attachmentsMeta,  \* object store "attachmentsMeta"
    attachmentsBlob,  \* object store "attachmentsBlob": blobKey -> stored File
    lastSyncPing,     \* localStorage "ltx:lastSyncPing", written by SyncBus.publish
    clock,            \* Date.now()
    last,             \* the call that returned last: arguments, outcome, events it published
    acceptedBytes,    \* sum of file.size over the files of the sends that returned a Message
    net,              \* Networked variant: the call in flight and its Supabase requests to come
    tab2,             \* a second context on the SyncBus: events dispatched to it, its last re-query
    commits,          \* number of committed write transactions
    prefs,            \* localStorage: the active and the authenticated profile id, the seeded flag
    pending,          \* per context, a createDm between its lookup and its transaction
    mirror            \* the same calls made on the Networked variant: its tables and events

vars == <<profiles, chats, memberships, messages, attachmentsMeta, attachmentsBlob,
          lastSyncPing, clock, last, acceptedBytes, net, tab2, commits, prefs, pending, mirror>>

stores == <<profiles, chats, memberships, messages, attachmentsMeta, attachmentsBlob>>

----------------------------------------------------------------------------
(* Bounds *)

NumProfiles == 2

MaxChats == 2

MaxMessages == 2

MaxClock == 1

\* membership rows of the networked tables
MaxMemberships == 3

BulkFiles == 9

----------------------------------------------------------------------------
(* Program constants and value encodings *)

Null == -1

MiB == 1024 * 1024

maxFileBytes == 10 * MiB

maxTotalBytes == 100 * MiB

ProfileIds == 1 .. NumProfiles

ImagePrefix == <<"i", "m", "a", "g", "e", "/">>

OctetStream == <<"application/octet-stream">>

UntitledGroup == <<"Untitled Group">>

----------------------------------------------------------------------------
(* Pure helpers *)

IsSpace(c) == c = " "

RECURSIVE trimStart(_)
trimStart(s) == IF s # <<>> /\ IsSpace(Head(s)) THEN trimStart(Tail(s)) ELSE s

RECURSIVE trimEnd(_)
trimEnd(s) ==
    IF s # <<>> /\ IsSpace(s[Len(s)]) THEN trimEnd(SubSeq(s, 1, Len(s) - 1)) ELSE s

\* variant: the text is taken as typed
trim_asTyped(s) == s

trim(s) == trimEnd(trimStart(s))

startsWith(s, prefix) ==
    /\ Len(s) >= Len(prefix)
    /\ SubSeq(s, 1, Len(prefix)) = prefix

isImageMime(mimeType) == startsWith(mimeType, ImagePrefix)

\* variant: repeated ids are kept
uniqueOf_keepAll(xs) == xs

\* [...new Set(xs)]: first occurrences, in order.
RECURSIVE uniqueOf(_)
uniqueOf(xs) ==
    IF xs = <<>> THEN <<>>
    ELSE LET init == uniqueOf(SubSeq(xs, 1, Len(xs) - 1))
             x == xs[Len(xs)]
         IN IF \E i \in 1 .. Len(init) : init[i] = x THEN init ELSE Append(init, x)

\* Array.prototype.sort() of a list of ids.
RECURSIVE sorted(_)
sorted(xs) ==
    IF xs = <<>> THEN <<>>
    ELSE LET m == CHOOSE i \in 1 .. Len(xs) : \A j \in 1 .. Len(xs) : xs[i] <= xs[j]
         IN <<xs[m]>> \o sorted(SubSeq(xs, 1, m - 1) \o SubSeq(xs, m + 1, Len(xs)))

RECURSIVE sumSizes(_)
sumSizes(files) == IF files = <<>> THEN 0 ELSE Head(files).size + sumSizes(Tail(files))

RECURSIVE sumSizeBytes(_)
sumSizeBytes(metas) ==
    IF metas = <<>> THEN 0 ELSE Head(metas).sizeBytes + sumSizeBytes(Tail(metas))

InsertAt(s, i, x) == SubSeq(s, 1, i - 1) \o <<x>> \o SubSeq(s, i, Len(s))

----------------------------------------------------------------------------
(* Reads *)

getAllChats == chats

getAllMemberships == memberships

getAllAttachmentMeta == attachmentsMeta

getChat(chatId) == {i \in 1 .. Len(chats) : chats[i].id = chatId}

getMembershipsByChat(chatId) == SelectSeq(getAllMemberships, LAMBDA m : m.chatId = chatId)

getProfileName(profileId) ==
    IF profileId \in 1 .. Len(profiles) THEN profiles[profileId].displayName ELSE <<"User">>

canProfileAccessChat(profileId, chatId) ==
    \E i \in 1 .. Len(getMembershipsByChat(chatId)) :
        /\ getMembershipsByChat(chatId)[i].profileId = profileId
        /\ getMembershipsByChat(chatId)[i].leftAt = Null

getTotalAttachmentBytes == sumSizeBytes(getAllAttachmentMeta)

\* ids of the active members of a chat, in store order
activeMemberIds(chatId) ==
    LET active == SelectSeq(getAllMemberships, LAMBDA m : m.leftAt = Null /\ m.chatId = chatId)
    IN [i \in 1 .. Len(active) |-> active[i].profileId]

\* variant: the active member ids are compared in store order with (a, b)
dmMatches_unsorted(chat, a, b) ==
    /\ chat.type = "dm"
    /\ activeMemberIds(chat.id) = <<a, b>>

dmMatches(chat, a, b) ==
    /\ chat.type = "dm"
    /\ LET ids == sorted(activeMemberIds(chat.id))
       IN /\ Len(ids) = 2
          /\ ids[1] = sorted(<<a, b>>)[1]
          /\ ids[2] = sorted(<<a, b>>)[2]

\* variant: the lookup finds no chat
findExistingDm_none(a, b) == Null

\* the first matching chat in getAll order, or Null
findExistingDm(a, b) ==
    LET hits == {i \in 1 .. Len(getAllChats) : dmMatches(getAllChats[i], a, b)}
    IN IF hits = {} THEN Null
       ELSE getAllChats[CHOOSE i \in hits : \A j \in hits : i <= j].id

\* variant: every file passes
validateFile_any(file) == TRUE

\* variant: a file is measured against the total cap
validateFile_totalCap(file) == ~(file.size > maxTotalBytes)

validateFile(file) == ~(file.size > maxFileBytes)

\* variant: a send that fills the store to the cap exactly is refused
quotaExceeded_atCap(totalStored, totalAttachmentBytes) ==
    totalStored + totalAttachmentBytes >= maxTotalBytes

\* variant: only the bytes of the new files are measured against the total cap
quotaExceeded_newOnly(totalStored, totalAttachmentBytes) ==
    totalAttachmentBytes > maxTotalBytes

quotaExceeded(totalStored, totalAttachmentBytes) ==
    totalStored + totalAttachmentBytes > maxTotalBytes

\* variant: the size of the file is not recorded
attachmentMeta_noSize(file, attachmentId, messageId, chatId, now) ==
    [id |-> attachmentId, messageId |-> messageId, chatId |-> chatId,
     kind |-> IF isImageMime(file.type) THEN "image" ELSE "file",
     fileName |-> file.name,
     mimeType |-> IF file.type # <<>> THEN file.type ELSE OctetStream,
     sizeBytes |-> 0, blobKey |-> attachmentId, createdAt |-> now]

\* the AttachmentMeta sendMessage stores for one file
attachmentMeta(file, attachmentId, messageId, chatId, now) ==
    [id |-> attachmentId, messageId |-> messageId, chatId |-> chatId,
     kind |-> IF isImageMime(file.type) THEN "image" ELSE "file",
     fileName |-> file.name,
     mimeType |-> IF file.type # <<>> THEN file.type ELSE OctetStream,
     sizeBytes |-> file.size, blobKey |-> attachmentId, createdAt |-> now]

\* variant: one file makes an image or file message whatever the text
deriveMessageType_anyText(text, files) ==
    IF Len(files) = 0 THEN "text"
    ELSE IF Len(files) = 1
         THEN (IF isImageMime(files[1].type) THEN "image" ELSE "file")
         ELSE "mixed"

deriveMessageType(text, files) ==
    IF Len(files) = 0 THEN "text"
    ELSE IF Len(files) = 1 /\ text = <<>>
         THEN (IF isImageMime(files[1].type) THEN "image" ELSE "file")
         ELSE "mixed"

\* x ?? y
coalesce(x, y) == IF x # Null THEN x ELSE y

\* variant: the comparator with its operands exchanged
compareChatItems_ascending(a, b) ==
    coalesce(a.lastMessageAt, a.chat.updatedAt) - coalesce(b.lastMessageAt, b.chat.updatedAt)

\* the comparator of the chat list: (b.lastMessageAt ?? b.chat.updatedAt) -
\* (a.lastMessageAt ?? a.chat.updatedAt)
compareChatItems(a, b) ==
    coalesce(b.lastMessageAt, b.chat.updatedAt) - coalesce(a.lastMessageAt, a.chat.updatedAt)

\* Array.prototype.sort(compare), which is stable: x goes before the first
\* item that compares greater than it
insertChatItem(items, x) ==
    LET later == {i \in 1 .. Len(items) : compareChatItems(items[i], x) > 0}
        pos == IF later = {} THEN Len(items) + 1
               ELSE CHOOSE i \in later : \A j \in later : i <= j
    IN SubSeq(items, 1, pos - 1) \o <<x>> \o SubSeq(items, pos, Len(items))

RECURSIVE sortChatItems(_)
sortChatItems(items) ==
    IF items = <<>> THEN <<>>
    ELSE insertChatItem(sortChatItems(SubSeq(items, 1, Len(items) - 1)), items[Len(items)])

\* the display name of the other member of a direct chat, the title of a group
chatItemTitle(chat, chatMembers, profileId) ==
    IF chat.type = "dm"
    THEN LET others == SelectSeq(chatMembers, LAMBDA m : m.profileId # profileId)
         IN IF others = <<>> THEN <<"DM">>
            ELSE IF others[1].profileId \in 1 .. Len(profiles)
                 THEN profiles[others[1].profileId].displayName
                 ELSE <<"Unknown">>
    ELSE IF chat.title # <<>> THEN chat.title ELSE <<"DM">>

\* variant: every chat the profile ever joined
getVisibleChatsForProfile_everJoined(profileId) ==
    LET joined == {getAllMemberships[i].chatId :
                      i \in {j \in 1 .. Len(getAllMemberships) :
                                 getAllMemberships[j].profileId = profileId}}
        visible == SelectSeq(getAllChats, LAMBDA chat : chat.id \in joined)
    IN sortChatItems([i \in 1 .. Len(visible) |->
                         [chat |-> visible[i], title |-> <<"DM">>,
                          lastMessageAt |-> visible[i].lastMessageAt, memberCount |-> 0]])

getVisibleChatsForProfile(profileId) ==
    LET activeMemberships == SelectSeq(getAllMemberships, LAMBDA m : m.leftAt = Null)
        visibleChatIds ==
            {activeMemberships[i].chatId :
                i \in {j \in 1 .. Len(activeMemberships) :
                           activeMemberships[j].profileId = profileId}}
        visible == SelectSeq(getAllChats, LAMBDA chat : chat.id \in visibleChatIds)
        item(chat) ==
            LET chatMembers == SelectSeq(activeMemberships, LAMBDA m : m.chatId = chat.id)
            IN [chat |-> chat, title |-> chatItemTitle(chat, chatMembers, profileId),
                lastMessageAt |-> chat.lastMessageAt, memberCount |-> Len(chatMembers)]
    IN sortChatItems([i \in 1 .. Len(visible) |-> item(visible[i])])

----------------------------------------------------------------------------
(* Inputs of the calls *)

Titles == {<<" ", "T", " ">>}

Texts == {<<>>, <<" ">>, <<" ", "h", "i", " ">>}

smallImage ==
    [name |-> <<"a.png">>, type |-> ImagePrefix \o <<"p", "n", "g">>, size |-> 1,
     content |-> "bytes-a"]

capFile ==
    [name |-> <<"b.txt">>, type |-> <<"t", "e", "x", "t", "/", "p", "l", "a", "i", "n">>,
     size |-> maxFileBytes, content |-> "bytes-b"]

overFile ==
    [name |-> <<"c.bin">>, type |-> <<>>, size |-> maxFileBytes + 1, content |-> "bytes-c"]

bulk == [i \in 1 .. BulkFiles |-> capFile]

\* (text, files) of the sends: empty and whitespace-only text, files below, at
\* and above the per-file cap, alone and together, and a large batch
SendInputs ==
    {<<t, <<>>>> : t \in Texts}
    \cup {<<t, <<smallImage>>>> : t \in Texts \ {<<>>}}
    \cup {<<<<>>, fs>> : fs \in {<<capFile>>, <<overFile>>, <<smallImage, overFile>>,
                                 <<smallImage, capFile>>, bulk}}

\* member id lists: empty, an id repeated, two different ids
MemberLists ==
    {<<>>} \cup {<<pq[1], pq[2]>> : pq \in {x \in ProfileIds \X ProfileIds : x[1] <= x[2]}}

\* the chat ids a caller passes: the ids of the stored chats
ChatIdInputs == {chats[i].id : i \in 1 .. Len(chats)}

\* Date.now()
Now == clock

----------------------------------------------------------------------------
(* SyncBus.publish and the record of the call that returned last *)

NoPing == [type |-> "", at |-> Null]

\* the slot after publishing the events in order: the last one stays
publish(types, at) == [type |-> types[Len(types)], at |-> at]

\* no context is inside a createDm
NoPending == <<>>

\* no networked call in flight
NoNet == [op |-> "", call |-> <<>>, requests |-> <<>>, events |-> <<>>, before |-> <<>>]

NoCall ==
    [op |-> "", ok |-> TRUE, error |-> "", chatId |-> Null, profileId |-> Null,
     otherId |-> Null, ids |-> <<>>, text |-> <<>>, password |-> <<>>, files |-> <<>>,
     result |-> Null,
     events |-> <<>>, start |-> 0, wasActive |-> FALSE]

\* no call made on either variant yet, both empty
NoMirror ==
    [phase |-> "embedded", tables |-> <<<<>>, <<>>, <<>>, <<>>, <<>>>>,
     embedded |-> NoCall, networked |-> NoCall, failed |-> FALSE]

\* lastMessageAt and updatedAt of the chat record, when it exists
touchChat(chatId, now) ==
    [i \in 1 .. Len(chats) |->
        IF chats[i].id = chatId
        THEN [chats[i] EXCEPT !.updatedAt = now, !.lastMessageAt = now]
        ELSE chats[i]]

----------------------------------------------------------------------------
(* Operations *)

InitStores ==
    /\ profiles = <<[id |-> 1, displayName |-> <<"A", "l">>, createdAt |-> 0, updatedAt |-> 0]>>
    /\ chats = <<>>
    /\ memberships = <<>>
    /\ messages = <<>>
    /\ attachmentsMeta = <<>>
    /\ attachmentsBlob = <<>>
    /\ lastSyncPing = NoPing
    /\ clock = 0
    /\ last = NoCall
    /\ acceptedBytes = 0
    /\ net = NoNet
    /\ commits = 0
    /\ prefs = [activeProfileId |-> 1, authenticatedProfileId |-> Null,
                hasSeededDemoData |-> FALSE]
    /\ pending = NoPending
    /\ mirror = NoMirror

\* a browser with BroadcastChannel
Init == InitStores /\ tab2 = [channel |-> TRUE, inbox |-> <<>>, seen |-> 0]

\* a browser with or without BroadcastChannel ("BroadcastChannel" in window)
InitBus == InitStores /\ tab2 \in {[channel |-> c, inbox |-> <<>>, seen |-> 0] : c \in BOOLEAN}

createDm(activeProfileId, otherProfileId) ==
    LET existing == findExistingDm(activeProfileId, otherProfileId)
           call == [NoCall EXCEPT !.op = "createDm", !.profileId = activeProfileId,
                       !.otherId = otherProfileId, !.start = clock]
       IN IF existing # Null
          THEN /\ last' = [call EXCEPT !.result = existing]
               /\ UNCHANGED <<clock, stores, lastSyncPing, acceptedBytes>>
          ELSE \E pos \in {i \in 1 .. Len(chats) + 1 : Len(chats) < MaxChats} :
               LET now == Now
                   chat == [id |-> Len(chats) + 1, type |-> "dm", title |-> <<>>,
                            createdByProfileId |-> activeProfileId, createdAt |-> now,
                            updatedAt |-> now, lastMessageAt |-> Null]
                   ids == <<activeProfileId, otherProfileId>>
                   new == [i \in 1 .. 2 |->
                             [id |-> Len(memberships) + i, chatId |-> chat.id,
                              profileId |-> ids[i],
                              role |-> IF i = 1 THEN "owner" ELSE "member",
                              joinedAt |-> now, leftAt |-> Null]]
                   events == <<"chats.changed", "memberships.changed">>
               IN /\ chats' = InsertAt(chats, pos, chat)
                  /\ memberships' = memberships \o new
                  /\ lastSyncPing' = publish(events, now)
                  /\ last' = [call EXCEPT !.result = chat.id, !.events = events]
                  /\ UNCHANGED <<clock, profiles, messages, attachmentsMeta, attachmentsBlob,
                                 acceptedBytes>>

createGroup(title, ownerProfileId, memberProfileIds) ==
    /\ Len(chats) < MaxChats
    /\ Len(messages) < MaxMessages
    /\ \E pos \in 1 .. Len(chats) + 1 :
        LET now == Now
            uniqueMembers == uniqueOf(<<ownerProfileId>> \o memberProfileIds)
            chat == [id |-> Len(chats) + 1, type |-> "group",
                     title |-> IF trim(title) # <<>> THEN trim(title) ELSE UntitledGroup,
                     createdByProfileId |-> ownerProfileId, createdAt |-> now,
                     updatedAt |-> now, lastMessageAt |-> now]
            new == [i \in 1 .. Len(uniqueMembers) |->
                      [id |-> Len(memberships) + i, chatId |-> chat.id,
                       profileId |-> uniqueMembers[i],
                       role |-> IF uniqueMembers[i] = ownerProfileId THEN "owner" ELSE "member",
                       joinedAt |-> now, leftAt |-> Null]]
            systemMessage == [id |-> Len(messages) + 1, chatId |-> chat.id,
                              senderProfileId |-> ownerProfileId, type |-> "system",
                              text |-> <<"Group created">>, attachmentIds |-> <<>>,
                              createdAt |-> now]
            events == <<"chats.changed", "memberships.changed", "messages.changed">>
        IN /\ chats' = InsertAt(chats, pos, chat)
           /\ memberships' = memberships \o new
           /\ messages' = Append(messages, systemMessage)
           /\ lastSyncPing' = publish(events, now)
           /\ last' = [NoCall EXCEPT !.op = "createGroup", !.profileId = ownerProfileId,
                          !.text = title, !.ids = memberProfileIds, !.result = chat.id,
                          !.events = events, !.start = clock]
    /\ UNCHANGED <<clock, profiles, attachmentsMeta, attachmentsBlob, acceptedBytes>>

\* variant: every listed id is added
membersToAdd_all(ids, currentMemberships) == ids

\* the listed ids that are not in the set of the active members of the chat
membersToAdd(ids, currentMemberships) ==
    LET activeMemberSet ==
            {currentMemberships[i].profileId :
                i \in {j \in 1 .. Len(currentMemberships) :
                           currentMemberships[j].leftAt = Null}}
    IN SelectSeq(ids, LAMBDA profileId : profileId \notin activeMemberSet)

addGroupMembers(chatId, actorProfileId, profileIds) ==
    LET ids == uniqueOf(profileIds)
           call == [NoCall EXCEPT !.op = "addGroupMembers", !.chatId = chatId,
                       !.profileId = actorProfileId, !.ids = profileIds, !.start = clock,
                       !.wasActive = canProfileAccessChat(actorProfileId, chatId)]
       IN IF Len(ids) = 0
          THEN /\ last' = call
               /\ UNCHANGED <<clock, stores, lastSyncPing, acceptedBytes>>
          ELSE LET now == Now
                   currentMemberships == getMembershipsByChat(chatId)
                   toAdd == membersToAdd(ids, currentMemberships)
                   new == [i \in 1 .. Len(toAdd) |->
                             [id |-> Len(memberships) + i, chatId |-> chatId,
                              profileId |-> toAdd[i], role |-> "member",
                              joinedAt |-> now, leftAt |-> Null]]
                   notes == [i \in 1 .. Len(toAdd) |->
                               [id |-> Len(messages) + i, chatId |-> chatId,
                                senderProfileId |-> actorProfileId, type |-> "system",
                                text |-> getProfileName(toAdd[i])
                                            \o <<" was added to the group">>,
                                attachmentIds |-> <<>>, createdAt |-> now]]
                   events == <<"memberships.changed", "messages.changed", "chats.changed">>
               IN /\ Len(messages) + Len(notes) <= MaxMessages
                  /\ memberships' = memberships \o new
                  /\ messages' = messages \o notes
                  /\ chats' = touchChat(chatId, now)
                  /\ lastSyncPing' = publish(events, now)
                  /\ last' = [call EXCEPT !.events = events]
                  /\ UNCHANGED <<clock, profiles, attachmentsMeta, attachmentsBlob, acceptedBytes>>

\* variant: the membership record of the leaver is deleted
leaveGroup_hardDelete(chatId, profileId) ==
    LET found == {i \in 1 .. Len(memberships) :
                     /\ memberships[i].chatId = chatId
                     /\ memberships[i].profileId = profileId
                     /\ memberships[i].leftAt = Null}
        call == [NoCall EXCEPT !.op = "leaveGroup", !.chatId = chatId,
                    !.profileId = profileId, !.start = clock,
                    !.wasActive = canProfileAccessChat(profileId, chatId)]
    IN IF found = {}
       THEN /\ last' = call
            /\ UNCHANGED <<clock, stores, lastSyncPing, acceptedBytes>>
       ELSE \E active \in found :
            /\ Len(messages) < MaxMessages
            /\ memberships' = SubSeq(memberships, 1, active - 1)
                                  \o SubSeq(memberships, active + 1, Len(memberships))
            /\ messages' = Append(messages,
                                  [id |-> Len(messages) + 1, chatId |-> chatId,
                                   senderProfileId |-> profileId, type |-> "system",
                                   text |-> getProfileName(profileId) \o <<" left the group">>,
                                   attachmentIds |-> <<>>, createdAt |-> Now])
            /\ chats' = touchChat(chatId, Now)
            /\ lastSyncPing' = publish(<<"memberships.changed">>, Now)
            /\ last' = [call EXCEPT !.events = <<"memberships.changed">>]
            /\ UNCHANGED <<clock, profiles, attachmentsMeta, attachmentsBlob, acceptedBytes>>

\* memberships.find(...) takes the first active membership of the profile in
\* getAll order, that is in the order of the random membership ids: any of them.
leaveGroup(chatId, profileId) ==
    LET found == {i \in 1 .. Len(memberships) :
                        /\ memberships[i].chatId = chatId
                        /\ memberships[i].profileId = profileId
                        /\ memberships[i].leftAt = Null}
           call == [NoCall EXCEPT !.op = "leaveGroup", !.chatId = chatId,
                       !.profileId = profileId, !.start = clock,
                       !.wasActive = canProfileAccessChat(profileId, chatId)]
       IN IF found = {}
          THEN /\ last' = call
               /\ UNCHANGED <<clock, stores, lastSyncPing, acceptedBytes>>
          ELSE \E active \in found :
               LET now == Now
                   note == [id |-> Len(messages) + 1, chatId |-> chatId,
                            senderProfileId |-> profileId, type |-> "system",
                            text |-> getProfileName(profileId) \o <<" left the group">>,
                            attachmentIds |-> <<>>, createdAt |-> now]
                   events == <<"memberships.changed", "messages.changed", "chats.changed">>
               IN /\ Len(messages) < MaxMessages
                  /\ memberships' = [memberships EXCEPT ![active].leftAt = now]
                  /\ messages' = Append(messages, note)
                  /\ chats' = touchChat(chatId, now)
                  /\ lastSyncPing' = publish(events, now)
                  /\ last' = [call EXCEPT !.events = events]
                  /\ UNCHANGED <<clock, profiles, attachmentsMeta, attachmentsBlob, acceptedBytes>>

sendMessage(chatId, senderProfileId, inputText, files) ==
    LET text == trim(inputText)
           call == [NoCall EXCEPT !.op = "sendMessage", !.chatId = chatId,
                       !.profileId = senderProfileId, !.text = inputText, !.files = files,
                       !.start = clock,
                       !.wasActive = canProfileAccessChat(senderProfileId, chatId)]
           totalAttachmentBytes == sumSizes(files)
           totalStored == getTotalAttachmentBytes
           error == IF text = <<>> /\ Len(files) = 0 THEN "Cannot send an empty message"
                    ELSE IF \E i \in 1 .. Len(files) : ~validateFile(files[i])
                         THEN "File is larger than 10 MB."
                    ELSE IF quotaExceeded(totalStored, totalAttachmentBytes)
                         THEN "Attachment storage limit reached."
                    ELSE ""
       IN IF error # ""
          THEN /\ last' = [call EXCEPT !.ok = FALSE, !.error = error]
               /\ UNCHANGED <<clock, stores, lastSyncPing, acceptedBytes>>
          ELSE LET now == Now
                   messageId == Len(messages) + 1
                   attachmentIds == [i \in 1 .. Len(files) |-> Len(attachmentsMeta) + i]
                   metas == [i \in 1 .. Len(files) |->
                               attachmentMeta(files[i], attachmentIds[i], messageId, chatId, now)]
                   message == [id |-> messageId, chatId |-> chatId,
                               senderProfileId |-> senderProfileId,
                               type |-> deriveMessageType(text, files), text |-> text,
                               attachmentIds |-> attachmentIds, createdAt |-> now]
                   events == <<"messages.changed", "chats.changed">>
               IN /\ Len(messages) < MaxMessages
                  /\ attachmentsMeta' = attachmentsMeta \o metas
                  /\ attachmentsBlob' = attachmentsBlob \o files
                  /\ messages' = Append(messages, message)
                  /\ chats' = touchChat(chatId, now)
                  /\ lastSyncPing' = publish(events, now)
                  /\ last' = [call EXCEPT !.result = messageId, !.events = events]
                  /\ acceptedBytes' = acceptedBytes + sumSizes(files)
                  /\ UNCHANGED <<clock, profiles, memberships>>

\* time passes between calls
Tick ==
    /\ clock < MaxClock
    /\ clock' = clock + 1
    /\ UNCHANGED <<stores, lastSyncPing, last, acceptedBytes, net, tab2, commits, prefs, pending, mirror>>

\* The membership operations and text sends, all within one reading of the
\* clock (none of them reads a stored timestamp).
Next ==
    /\ UNCHANGED <<net, tab2, commits, prefs, pending, mirror>>
    /\ \/ \E a \in ProfileIds, b \in ProfileIds : createDm(a, b)
       \/ \E title \in Titles, owner \in ProfileIds, members \in MemberLists :
              createGroup(title, owner, members)
       \/ \E chatId \in ChatIdInputs, actor \in ProfileIds, ids \in MemberLists :
              addGroupMembers(chatId, actor, ids)
       \/ \E chatId \in ChatIdInputs, profileId \in ProfileIds : leaveGroup(chatId, profileId)
       \/ \E chatId \in ChatIdInputs, sender \in ProfileIds, text \in Texts \ {<<>>} :
              sendMessage(chatId, sender, text, <<>>)

Spec == Init /\ [][Next]_vars

\* Sends of the members of a direct chat, with attachments against the file
\* limits and with time passing.
NextSend ==
    \/ Tick
    \/ /\ UNCHANGED <<net, tab2, commits, prefs, pending, mirror>>
       /\ \/ Len(chats) = 0 /\ createDm(1, 2)
          \/ \E chatId \in ChatIdInputs, input \in SendInputs :
                 \E sender \in {p \in ProfileIds : canProfileAccessChat(p, chatId)} :
                     sendMessage(chatId, sender, input[1], input[2])

SpecSend == Init /\ [][NextSend]_vars

----------------------------------------------------------------------------
(* Networked (Supabase) variant.  A call is a sequence of awaited requests, *)
(* each one statement against the tables, which stand in the store          *)
(* variables; the statement is subject to the row-level policies of the      *)
(* schema for the session user, who is the profile the call is made for,     *)
(* and any request can fail.  The state between two requests is what         *)
(* another client reads.  Rows get their ids when they are inserted.         *)

\* the tables and the storage bucket
tables == <<chats, memberships, messages, attachmentsMeta, attachmentsBlob>>

\* public.is_chat_member(target_chat_id) for auth.uid() = actorId
is_chat_member(actorId, chatId) ==
    \E i \in 1 .. Len(memberships) :
        /\ memberships[i].chatId = chatId
        /\ memberships[i].profileId = actorId
        /\ memberships[i].leftAt = Null

request(kind, chatId, rows, now) ==
    [kind |-> kind, chatId |-> chatId, rows |-> rows, now |-> now]

\* the with-check clause of the insert policy of the table
requestRefused(req, actorId) ==
    CASE req.kind = "insertChat" -> req.rows[1].createdByProfileId # actorId
      [] req.kind = "insertMemberships" ->
            \E i \in 1 .. Len(req.rows) :
                ~(is_chat_member(actorId, req.chatId) \/ req.rows[i].profileId = actorId)
      [] req.kind = "insertMessages" ->
            \E i \in 1 .. Len(req.rows) :
                ~(req.rows[i].senderProfileId = actorId /\ is_chat_member(actorId, req.chatId))
      [] req.kind = "insertAttachment" -> ~is_chat_member(actorId, req.chatId)
      [] OTHER -> FALSE

withIds(rows, first) == [i \in 1 .. Len(rows) |-> [rows[i] EXCEPT !.id = first + i]]

\* the statement itself.  An update touches the rows its policy lets the user
\* see: chats_update_member and memberships_update_self_or_member; the schema
\* has no update policy for messages, so that update matches no row.
applyRequest(req, actorId) ==
    CASE req.kind = "insertChat" ->
            /\ chats' = chats \o withIds(req.rows, Len(chats))
            /\ UNCHANGED <<memberships, messages, attachmentsMeta, attachmentsBlob>>
      [] req.kind = "insertMemberships" ->
            /\ memberships' = memberships \o withIds(req.rows, Len(memberships))
            /\ UNCHANGED <<chats, messages, attachmentsMeta, attachmentsBlob>>
      [] req.kind = "updateLeft" ->
            /\ memberships' =
                   [i \in 1 .. Len(memberships) |->
                       IF /\ memberships[i].chatId = req.chatId
                          /\ memberships[i].profileId = actorId
                          /\ memberships[i].leftAt = Null
                       THEN [memberships[i] EXCEPT !.leftAt = req.now]
                       ELSE memberships[i]]
            /\ UNCHANGED <<chats, messages, attachmentsMeta, attachmentsBlob>>
      [] req.kind = "insertMessages" ->
            /\ messages' = messages \o withIds(req.rows, Len(messages))
            /\ UNCHANGED <<chats, memberships, attachmentsMeta, attachmentsBlob>>
      [] req.kind = "upload" ->
            /\ attachmentsBlob' = attachmentsBlob \o req.rows
            /\ UNCHANGED <<chats, memberships, messages, attachmentsMeta>>
      [] req.kind = "insertAttachment" ->
            /\ attachmentsMeta' =
                   attachmentsMeta
                       \o [i \in 1 .. Len(req.rows) |->
                              [req.rows[i] EXCEPT !.id = Len(attachmentsMeta) + i,
                                                  !.blobKey = Len(attachmentsBlob)]]
            /\ UNCHANGED <<chats, memberships, messages, attachmentsBlob>>
      [] req.kind = "touchChat" ->
            /\ chats' = IF is_chat_member(actorId, req.chatId)
                        THEN touchChat(req.chatId, req.now) ELSE chats
            /\ UNCHANGED <<memberships, messages, attachmentsMeta, attachmentsBlob>>
      [] OTHER -> UNCHANGED <<chats, memberships, messages, attachmentsMeta, attachmentsBlob>>

\* one awaited request of the call in flight: it is carried out, or it fails
\* (refused by the policy, or a network or server error) and the call throws
netRequest ==
    /\ net.op # ""
    /\ net.requests # <<>>
    /\ LET req == Head(net.requests)
           actorId == net.call.profileId
       IN \/ /\ ~requestRefused(req, actorId)
             /\ applyRequest(req, actorId)
             /\ net' = [net EXCEPT !.requests = Tail(@)]
             /\ UNCHANGED <<profiles, lastSyncPing, clock, last, acceptedBytes, tab2, commits, prefs, pending, mirror>>
          \/ /\ last' = [net.call EXCEPT
                            !.ok = FALSE, !.result = Null,
                            !.error = IF requestRefused(req, actorId)
                                      THEN "new row violates row-level security policy"
                                      ELSE "request failed"]
             /\ net' = NoNet
             /\ UNCHANGED <<stores, lastSyncPing, clock, acceptedBytes, tab2, commits, prefs, pending, mirror>>

\* after the last request: the publishes and the return
netReturn ==
    /\ net.op # ""
    /\ net.requests = <<>>
    /\ lastSyncPing' = publish(net.events, Now)
    /\ last' = [net.call EXCEPT !.events = net.events]
    /\ acceptedBytes' = acceptedBytes + sumSizes(net.call.files)
    /\ net' = NoNet
    /\ UNCHANGED <<stores, clock, tab2, commits, prefs, pending, mirror>>

\* a call that returns or throws before its first request
netReturnsAtOnce(call) ==
    /\ last' = call
    /\ UNCHANGED <<stores, lastSyncPing, clock, acceptedBytes, net, tab2, commits, prefs, pending, mirror>>

netStarts(call, requests, events) ==
    /\ net' = [op |-> call.op, call |-> call, requests |-> requests, events |-> events,
               before |-> tables]
    /\ UNCHANGED <<stores, lastSyncPing, clock, last, acceptedBytes, tab2, commits, prefs, pending, mirror>>

membershipRow(chatId, profileId, role, now) ==
    [id |-> 0, chatId |-> chatId, profileId |-> profileId, role |-> role,
     joinedAt |-> now, leftAt |-> Null]

systemRow(chatId, senderProfileId, text, now) ==
    [id |-> 0, chatId |-> chatId, senderProfileId |-> senderProfileId, type |-> "system",
     text |-> text, attachmentIds |-> <<>>, createdAt |-> now]

createGroupNet(title, ownerProfileId, memberProfileIds) ==
    /\ net.op = ""
    /\ Len(chats) < MaxChats
    /\ Len(messages) < MaxMessages
    /\ Len(memberships) < MaxMemberships
    /\ LET actorProfileId == ownerProfileId
           now == Now
           chatId == Len(chats) + 1
           uniqueMembers == uniqueOf(<<actorProfileId>> \o memberProfileIds)
           otherMembers == SelectSeq(uniqueMembers, LAMBDA profileId : profileId # actorProfileId)
           chat == [id |-> 0, type |-> "group",
                    title |-> IF trim(title) # <<>> THEN trim(title) ELSE UntitledGroup,
                    createdByProfileId |-> actorProfileId, createdAt |-> now,
                    updatedAt |-> now, lastMessageAt |-> now]
           call == [NoCall EXCEPT !.op = "createGroup", !.profileId = ownerProfileId,
                       !.result = chatId, !.start = clock]
       IN netStarts(call,
              <<request("insertChat", chatId, <<chat>>, now),
                request("insertMemberships", chatId,
                        <<membershipRow(chatId, actorProfileId, "owner", now)>>, now)>>
              \o (IF Len(otherMembers) > 0
                  THEN <<request("insertMemberships", chatId,
                                 [i \in 1 .. Len(otherMembers) |->
                                     membershipRow(chatId, otherMembers[i], "member", now)],
                                 now)>>
                  ELSE <<>>)
              \o <<request("insertMessages", chatId,
                           <<systemRow(chatId, actorProfileId, <<"Group created">>, now)>>,
                           now)>>,
              <<"chats.changed", "memberships.changed", "messages.changed">>)

\* getMembershipsByChat reads under memberships_select_member: the rows of the
\* chat for a member of it, no row for anybody else
addGroupMembersNet(chatId, actorProfileId, profileIds) ==
    /\ net.op = ""
    /\ Len(messages) < MaxMessages
    /\ Len(memberships) < MaxMemberships
    /\ LET actorId == actorProfileId
           ids == uniqueOf(profileIds)
           now == Now
           currentMemberships ==
               IF is_chat_member(actorId, chatId) THEN getMembershipsByChat(chatId) ELSE <<>>
           toAdd == membersToAdd(ids, currentMemberships)
           call == [NoCall EXCEPT !.op = "addGroupMembers", !.chatId = chatId,
                       !.profileId = actorProfileId, !.ids = profileIds, !.start = clock,
                       !.wasActive = canProfileAccessChat(actorProfileId, chatId)]
       IN IF Len(ids) = 0 \/ Len(toAdd) = 0
          THEN netReturnsAtOnce(call)
          ELSE netStarts(call,
                   <<request("insertMemberships", chatId,
                             [i \in 1 .. Len(toAdd) |->
                                 membershipRow(chatId, toAdd[i], "member", now)], now),
                     request("insertMessages", chatId,
                             [i \in 1 .. Len(toAdd) |->
                                 systemRow(chatId, actorId,
                                           getProfileName(toAdd[i])
                                               \o <<" was added to the group">>, now)], now),
                     request("touchChat", chatId, <<>>, now)>>,
                   <<"memberships.changed", "messages.changed", "chats.changed">>)

leaveGroupNet(chatId, profileId) ==
    /\ net.op = ""
    /\ Len(messages) < MaxMessages
    /\ LET actorId == profileId
           now == Now
           call == [NoCall EXCEPT !.op = "leaveGroup", !.chatId = chatId,
                       !.profileId = profileId, !.start = clock,
                       !.wasActive = canProfileAccessChat(profileId, chatId)]
       IN netStarts(call,
              <<request("updateLeft", chatId, <<>>, now),
                request("insertMessages", chatId,
                        <<systemRow(chatId, actorId,
                                    getProfileName(actorId) \o <<" left the group">>, now)>>,
                        now),
                request("touchChat", chatId, <<>>, now)>>,
              <<"memberships.changed", "messages.changed", "chats.changed">>)

\* getTotalAttachmentBytes reads under attachments_select_member
getTotalAttachmentBytesNet(actorId) ==
    sumSizeBytes(SelectSeq(attachmentsMeta, LAMBDA meta : is_chat_member(actorId, meta.chatId)))

sendMessageNet(chatId, senderProfileId, inputText, files) ==
    /\ net.op = ""
    /\ LET text == trim(inputText)
           actorId == senderProfileId
           call == [NoCall EXCEPT !.op = "sendMessage", !.chatId = chatId,
                       !.profileId = senderProfileId, !.text = inputText, !.files = files,
                       !.start = clock,
                       !.wasActive = canProfileAccessChat(senderProfileId, chatId)]
           totalAttachmentBytes == sumSizes(files)
           totalStored == getTotalAttachmentBytesNet(actorId)
           error == IF text = <<>> /\ Len(files) = 0 THEN "Cannot send an empty message"
                    ELSE IF \E i \in 1 .. Len(files) : ~validateFile(files[i])
                         THEN "File is larger than 10 MB."
                    ELSE IF quotaExceeded(totalStored, totalAttachmentBytes)
                         THEN "Attachment storage limit reached."
                    ELSE ""
           now == Now
           messageId == Len(messages) + 1
           attachmentIds == [i \in 1 .. Len(files) |-> Len(attachmentsMeta) + i]
           message == [id |-> 0, chatId |-> chatId, senderProfileId |-> actorId,
                       type |-> deriveMessageType(text, files), text |-> text,
                       attachmentIds |-> <<>>, createdAt |-> now]
           perFile(i) ==
               <<request("upload", chatId, <<files[i]>>, now),
                 request("insertAttachment", chatId,
                         <<attachmentMeta(files[i], 0, messageId, chatId, now)>>, now)>>
           uploads == IF Len(files) = 0 THEN <<>>
                      ELSE IF Len(files) = 1 THEN perFile(1)
                      ELSE perFile(1) \o perFile(2)
       IN IF error # ""
          THEN netReturnsAtOnce([call EXCEPT !.ok = FALSE, !.error = error])
          ELSE /\ Len(messages) < MaxMessages
               /\ Len(files) <= 2
               /\ netStarts([call EXCEPT !.result = messageId],
                      <<request("insertMessages", chatId, <<message>>, now)>>
                      \o uploads
                      \o (IF Len(attachmentIds) > 0
                          THEN <<request("patchMessage", chatId, <<attachmentIds>>, now)>>
                          ELSE <<>>)
                      \o <<request("touchChat", chatId, <<>>, now)>>,
                      <<"messages.changed", "chats.changed">>)

\* (text, files) of the networked sends
NetSendInputs ==
    {<<<<" ">>, <<>>>>, <<<<" ", "h", "i", " ">>, <<>>>>, <<<<>>, <<smallImage>>>>}

NextNet ==
    \/ \E title \in Titles, members \in {<<>>, <<1, 2>>} :
           Len(chats) = 0 /\ createGroupNet(title, 1, members)
    \/ \E chatId \in ChatIdInputs, actor \in ProfileIds, ids \in {<<1, 2>>, <<2, 2>>} :
           addGroupMembersNet(chatId, actor, ids)
    \/ \E chatId \in ChatIdInputs, profileId \in ProfileIds : leaveGroupNet(chatId, profileId)
    \/ \E chatId \in ChatIdInputs, sender \in ProfileIds, input \in NetSendInputs :
           sendMessageNet(chatId, sender, input[1], input[2])
    \/ netRequest
    \/ netReturn

SpecNet == Init /\ [][NextNet]_vars

----------------------------------------------------------------------------
(* The SyncBus between two tabs.  Tab 1 runs the operations of the embedded  *)
(* variant; tab 2 has subscribed and re-queries on every event it is handed. *)
(* tab2.inbox is the queue of events the browser has dispatched to tab 2 and *)
(* its handlers have not run for yet; commits counts the transactions tab 1  *)
(* has committed and tab2.seen is that count at tab 2's last re-query.       *)

\* the value publish puts under "ltx:lastSyncPing": JSON.stringify of
\* {type, at}, which differs exactly when the type or the time differs
syncPing(type, at) == [type |-> type, at |-> at]

\* localStorage.setItem fires a storage event in the other tabs only when it
\* changes the stored value
firesStorageEvent(oldValue, newValue) == newValue # oldValue

\* What tab 2 is handed for the events one call publishes in order: per event
\* the channel message, when both tabs have a BroadcastChannel, and the
\* storage event, when there is one.
RECURSIVE delivered(_, _, _, _)
delivered(slot, types, at, channel) ==
    IF types = <<>>
    THEN <<>>
    ELSE LET event == syncPing(Head(types), at)
         IN (IF channel THEN <<event>> ELSE <<>>)
            \o (IF firesStorageEvent(slot, event) THEN <<event>> ELSE <<>>)
            \o delivered(event, Tail(types), at, channel)

upsertProfile(profile) ==
    LET events == <<"profiles.changed">>
        at == IF \E i \in 1 .. Len(profiles) : profiles[i].id = profile.id
              THEN CHOOSE i \in 1 .. Len(profiles) : profiles[i].id = profile.id
              ELSE Len(profiles) + 1
    IN /\ profiles' = [i \in 1 .. (IF at > Len(profiles) THEN at ELSE Len(profiles)) |->
                          IF i = at THEN profile ELSE profiles[i]]
       /\ lastSyncPing' = publish(events, Now)
       /\ last' = [NoCall EXCEPT !.op = "upsertProfile", !.profileId = profile.id,
                      !.text = profile.displayName, !.events = events, !.start = clock]
       /\ UNCHANGED <<clock, chats, memberships, messages, attachmentsMeta, attachmentsBlob,
                      acceptedBytes>>

\* the profiles tab 1 saves: its own, under one of two names
ProfileInputs ==
    {[id |-> 1, displayName |-> name, createdAt |-> 0, updatedAt |-> clock] :
        name \in {<<"A", "l">>, <<"A", "l", "i">>}}

\* the transactions tab 1 commits
MaxCommits == 3

\* What a call of tab 1 that has just returned means for tab 2.  Each of the
\* three operations below commits one transaction unless it throws.
tab2Notified ==
    /\ commits' = IF last'.ok THEN commits + 1 ELSE commits
    /\ tab2' = [tab2 EXCEPT !.inbox = @ \o delivered(lastSyncPing, last'.events, Now,
                                                       tab2.channel)]
    /\ UNCHANGED <<net, prefs, pending, mirror>>

\* tab 2: channel.onmessage or onStorage calls emit, the subscriber of App
\* bumps refreshTick and the views query the repository again
onSyncEvent ==
    /\ tab2.inbox # <<>>
    /\ tab2' = [tab2 EXCEPT !.inbox = Tail(@), !.seen = commits]
    /\ UNCHANGED <<stores, lastSyncPing, clock, last, acceptedBytes, net, commits, prefs, pending, mirror>>

NextBus ==
    \/ Tick
    \/ onSyncEvent
    \/ /\ commits < MaxCommits
       /\ \/ \E title \in Titles : createGroup(title, 1, <<>>)
          \/ \E chatId \in ChatIdInputs, text \in Texts :
                 \E sender \in {p \in ProfileIds : canProfileAccessChat(p, chatId)} :
                     sendMessage(chatId, sender, text, <<>>)
          \/ \E profile \in ProfileInputs : upsertProfile(profile)
       /\ tab2Notified

SpecBus == InitBus /\ [][NextBus]_vars

----------------------------------------------------------------------------
(* getMessages.  The variable messages holds the records in the order they   *)
(* were put.  The store hands them out in the order of their keys, the ids   *)
(* createId draws at random (crypto.randomUUID), so the key order is any     *)
(* order of the stored messages; it is the parameter keyOrder below.         *)

\* the orders in which getAll can return the stored messages
KeyOrders ==
    {order \in [1 .. Len(messages) -> 1 .. Len(messages)] :
        \A i, j \in 1 .. Len(messages) : order[i] = order[j] => i = j}

getAllMessages(keyOrder) == [i \in 1 .. Len(messages) |-> messages[keyOrder[i]]]

\* (a, b) => a.createdAt - b.createdAt
compareCreatedAt(a, b) == a.createdAt - b.createdAt

\* Array.prototype.sort is stable: x goes behind every item it does not
\* compare below
insertByCreatedAt(items, x) ==
    LET before == {i \in 1 .. Len(items) : compareCreatedAt(x, items[i]) < 0}
        at == IF before = {} THEN Len(items) + 1
              ELSE CHOOSE i \in before : \A j \in before : i <= j
    IN InsertAt(items, at, x)

RECURSIVE sortByCreatedAt(_)
sortByCreatedAt(items) ==
    IF items = <<>> THEN <<>>
    ELSE insertByCreatedAt(sortByCreatedAt(SubSeq(items, 1, Len(items) - 1)), items[Len(items)])

\* getByKey on the blob store: the blobs stored under a key, none or one
getBlob(blobKey) ==
    IF blobKey \in 1 .. Len(attachmentsBlob) THEN <<attachmentsBlob[blobKey]>> ELSE <<>>

\* the attachments joined to one message: its metas of this chat with the
\* blob of each, a meta without a blob left out
attachmentsOf(message, chatId) ==
    LET metas == SelectSeq(getAllAttachmentMeta,
                           LAMBDA meta : meta.chatId = chatId /\ meta.messageId = message.id)
        withBlob == SelectSeq(metas, LAMBDA meta : getBlob(meta.blobKey) # <<>>)
    IN [i \in 1 .. Len(withBlob) |->
           [meta |-> withBlob[i], blob |-> getBlob(withBlob[i].blobKey)[1]]]

getMessages(chatId, keyOrder) ==
    LET inChat == sortByCreatedAt(SelectSeq(getAllMessages(keyOrder),
                                            LAMBDA message : message.chatId = chatId))
    IN [i \in 1 .. Len(inChat) |->
           [message |-> inChat[i], attachments |-> attachmentsOf(inChat[i], chatId)]]

\* a file whose type the browser does not know
untypedFile == [name |-> <<"d">>, type |-> <<>>, size |-> 2, content |-> "bytes-d"]

\* (text, files) of the sends that are read back
ReadSendInputs ==
    {<<<<" ", "h", "i", " ">>, <<>>>>,
     <<<<" ">>, <<smallImage>>>>,
     <<<<" ", "h", "i", " ">>, <<smallImage>>>>,
     <<<<>>, <<untypedFile>>>>,
     <<<<>>, <<smallImage, untypedFile>>>>}

\* titles of the groups: with spaces around, of spaces only, empty
GroupTitles == {<<" ", "T", " ">>, <<" ", " ">>, <<>>}

\* Chats whose messages are read back: a direct chat, a group, members added
\* one or two at a time, and sends with and without files, while time passes.
NextRead ==
    \/ Tick
    \/ /\ UNCHANGED <<net, tab2, commits, prefs, pending, mirror>>
       /\ \/ Len(chats) = 0 /\ createDm(1, 2)
          \/ \E title \in GroupTitles, members \in {<<>>, <<2, 1, 2>>} :
                 Len(chats) = 0 /\ createGroup(title, 1, members)
          \/ \E chatId \in ChatIdInputs, ids \in {<<2>>, <<3, 4>>} :
                 addGroupMembers(chatId, 1, ids)
          \/ \E chatId \in ChatIdInputs, input \in ReadSendInputs :
                 \E sender \in {p \in ProfileIds : canProfileAccessChat(p, chatId)} :
                     sendMessage(chatId, sender, input[1], input[2])

SpecRead == Init /\ [][NextRead]_vars

\* a chat id under which no chat is ever stored
missingChatId == MaxChats + 1

\* Calls with the id of a stored chat and with an id no chat has.
NextStray ==
    \/ Tick
    \/ /\ UNCHANGED <<net, tab2, commits, prefs, pending, mirror>>
       /\ \/ \E title \in Titles : createGroup(title, 1, <<>>)
          \/ \E chatId \in ChatIdInputs \cup {missingChatId}, sender \in ProfileIds,
                input \in {<<<<" ", "h", "i", " ">>, <<>>>>, <<<<>>, <<smallImage>>>>} :
                 sendMessage(chatId, sender, input[1], input[2])
          \/ \E chatId \in ChatIdInputs \cup {missingChatId}, actor \in ProfileIds :
                 addGroupMembers(chatId, actor, <<2>>)
          \/ \E chatId \in ChatIdInputs \cup {missingChatId}, profileId \in ProfileIds :
                 leaveGroup(chatId, profileId)

SpecStray == Init /\ [][NextStray]_vars

----------------------------------------------------------------------------
(* Profiles and the local account of a browser (embedded variant).  The      *)
(* form that submits these calls is disabled while one is running, so each   *)
(* action is one whole call.                                                 *)

PBKDF2_ITERATIONS == 120000

\* the salts crypto.getRandomValues can draw
Salts == {"salt-1", "salt-2"}

\* PBKDF2 with SHA-256: the hash is a function of password, salt and iteration
\* count, and different inputs are taken to give different hashes
deriveHash(password, salt, iterations) == <<password, salt, iterations>>

createPasswordRecord(password, salt) ==
    [salt |-> salt, hash |-> deriveHash(password, salt, PBKDF2_ITERATIONS),
     iterations |-> PBKDF2_ITERATIONS]

\* variant: every password verifies
verifyPassword_any(password, record) == TRUE

verifyPassword(password, record) ==
    deriveHash(password, record.salt, record.iterations) = record.hash

\* profile.passwordHash && profile.passwordSalt && profile.passwordIterations
hasPasswordRecord(profile) == "passwordHash" \in DOMAIN profile

\* the letters of the names below in the order localeCompare puts them
alphabet == <<" ", "A", "B", "l", "n", "o">>

charRank(c) == CHOOSE i \in 1 .. Len(alphabet) : alphabet[i] = c

\* a.localeCompare(b) < 0
RECURSIVE localeBefore(_, _)
localeBefore(a, b) ==
    IF b = <<>> THEN FALSE
    ELSE IF a = <<>> THEN TRUE
    ELSE IF Head(a) # Head(b) THEN charRank(Head(a)) < charRank(Head(b))
    ELSE localeBefore(Tail(a), Tail(b))

\* getProfiles()[0]: the profiles that can come first when the store is sorted
\* by displayName; profiles of equal name stay in the order of their random ids
firstProfiles ==
    {i \in 1 .. Len(profiles) :
        \A j \in 1 .. Len(profiles) :
            ~localeBefore(profiles[j].displayName, profiles[i].displayName)}

createProfile(displayName) ==
    LET now == Now
        profile == [id |-> Len(profiles) + 1, displayName |-> trim(displayName),
                    createdAt |-> now, updatedAt |-> now]
        events == <<"profiles.changed">>
    IN /\ Len(profiles) < NumProfiles
       /\ profiles' = Append(profiles, profile)
       /\ lastSyncPing' = publish(events, now)
       /\ last' = [NoCall EXCEPT !.op = "createProfile", !.text = displayName,
                      !.result = profile.id, !.events = events, !.start = clock]
       /\ UNCHANGED <<clock, chats, memberships, messages, attachmentsMeta, attachmentsBlob,
                      acceptedBytes, prefs>>

\* variant: the check for an existing account is left out
accountExists_never == FALSE

\* existing.length > 0
accountExists == Len(profiles) > 0

signUpLocalAccount(displayName, password) ==
    LET call == [NoCall EXCEPT !.op = "signUpLocalAccount", !.text = displayName,
                    !.password = password, !.start = clock]
    IN IF accountExists
       THEN /\ last' = [call EXCEPT !.ok = FALSE,
                           !.error = "This browser already has an account. Sign in instead."]
            /\ UNCHANGED <<clock, stores, lastSyncPing, acceptedBytes, prefs>>
       ELSE \E salt \in Salts :
            LET now == Now
                auth == createPasswordRecord(password, salt)
                profile == [id |-> Len(profiles) + 1, displayName |-> trim(displayName),
                            passwordSalt |-> auth.salt, passwordHash |-> auth.hash,
                            passwordIterations |-> auth.iterations,
                            createdAt |-> now, updatedAt |-> now]
                events == <<"profiles.changed">>
            IN /\ Len(profiles) < NumProfiles
               /\ profiles' = Append(profiles, profile)
               /\ prefs' = [prefs EXCEPT !.activeProfileId = profile.id,
                                         !.authenticatedProfileId = profile.id]
               /\ lastSyncPing' = publish(events, now)
               /\ last' = [call EXCEPT !.result = profile.id, !.events = events]
               /\ UNCHANGED <<clock, chats, memberships, messages, attachmentsMeta,
                              attachmentsBlob, acceptedBytes>>

signInLocalAccount(password) ==
    LET call == [NoCall EXCEPT !.op = "signInLocalAccount", !.password = password,
                    !.start = clock]
        fails(error) ==
            /\ last' = [call EXCEPT !.ok = FALSE, !.error = error]
            /\ UNCHANGED prefs
    IN /\ IF Len(profiles) = 0
          THEN fails("No account found in this browser. Sign up first.")
          ELSE \E first \in firstProfiles :
               LET profile == profiles[first]
               IN IF ~hasPasswordRecord(profile)
                  THEN fails("This local account has no password set.")
                  ELSE IF ~verifyPassword(password,
                                          [salt |-> profile.passwordSalt,
                                           hash |-> profile.passwordHash,
                                           iterations |-> profile.passwordIterations])
                  THEN fails("Incorrect password")
                  ELSE /\ prefs' = [prefs EXCEPT !.activeProfileId = profile.id,
                                                 !.authenticatedProfileId = profile.id]
                       /\ last' = [call EXCEPT !.profileId = profile.id,
                                      !.result = profile.id]
       /\ UNCHANGED <<clock, stores, lastSyncPing, acceptedBytes>>

setPasswordForExistingLocalAccount(password) ==
    LET call == [NoCall EXCEPT !.op = "setPasswordForExistingLocalAccount",
                    !.password = password, !.start = clock]
    IN IF Len(profiles) = 0
       THEN /\ last' = [call EXCEPT !.ok = FALSE, !.error = "No local account found."]
            /\ UNCHANGED <<clock, stores, lastSyncPing, acceptedBytes, prefs>>
       ELSE \E first \in firstProfiles, salt \in Salts :
            LET profile == profiles[first]
                auth == createPasswordRecord(password, salt)
                updated == [id |-> profile.id, displayName |-> profile.displayName,
                            passwordSalt |-> auth.salt, passwordHash |-> auth.hash,
                            passwordIterations |-> auth.iterations,
                            createdAt |-> profile.createdAt, updatedAt |-> Now]
                events == <<"profiles.changed">>
            IN /\ profiles' = [profiles EXCEPT ![first] = updated]
               /\ prefs' = [prefs EXCEPT !.activeProfileId = updated.id,
                                         !.authenticatedProfileId = updated.id]
               /\ lastSyncPing' = publish(events, Now)
               /\ last' = [call EXCEPT !.profileId = updated.id, !.result = updated.id,
                              !.events = events]
               /\ UNCHANGED <<clock, chats, memberships, messages, attachmentsMeta,
                              attachmentsBlob, acceptedBytes>>

signOut ==
    /\ prefs' = [prefs EXCEPT !.authenticatedProfileId = Null]
    /\ last' = [NoCall EXCEPT !.op = "signOut", !.start = clock]
    /\ UNCHANGED <<clock, stores, lastSyncPing, acceptedBytes>>

\* a name of 65 characters
longName == [i \in 1 .. 65 |-> "n"]

\* display names: with spaces around, of spaces only, empty, too long
ProfileNames == {<<" ", "B", "o", " ">>, <<"A", "l">>, <<" ">>, <<>>, longName}

Passwords == {<<"p", "w">>, <<"o", "t", "h", "e", "r">>}

\* a browser that has no profile yet
InitAccounts ==
    /\ profiles = <<>>
    /\ chats = <<>>
    /\ memberships = <<>>
    /\ messages = <<>>
    /\ attachmentsMeta = <<>>
    /\ attachmentsBlob = <<>>
    /\ lastSyncPing = NoPing
    /\ clock = 0
    /\ last = NoCall
    /\ acceptedBytes = 0
    /\ net = NoNet
    /\ tab2 = [channel |-> TRUE, inbox |-> <<>>, seen |-> 0]
    /\ commits = 0
    /\ prefs = [activeProfileId |-> Null, authenticatedProfileId |-> Null,
                hasSeededDemoData |-> FALSE]
    /\ pending = NoPending
    /\ mirror = NoMirror

NextAccounts ==
    \/ Tick
    \/ /\ UNCHANGED <<net, tab2, commits, pending, mirror>>
       /\ \/ \E name \in ProfileNames : createProfile(name)
          \/ \E name \in {<<"A", "l">>, <<" ", "B", "o", " ">>}, password \in Passwords :
                 signUpLocalAccount(name, password)
          \/ \E password \in Passwords : signInLocalAccount(password)
          \/ \E password \in Passwords : setPasswordForExistingLocalAccount(password)
          \/ signOut

SpecAccounts == InitAccounts /\ [][NextAccounts]_vars

----------------------------------------------------------------------------
(* createDm in two tabs on the same IndexedDB.  The lookup (findExistingDm,  *)
(* read-only transactions) and the readwrite transaction that puts the chat  *)
(* are separate awaits, so a call of the other tab can run between them.     *)
(* pending holds, per tab, the call that has looked up and not yet written.  *)

Contexts == {1, 2}

pendingOf(context) == {i \in 1 .. Len(pending) : pending[i].context = context}

\* createDm up to "if (existing) return existing"
createDmLookup(context, activeProfileId, otherProfileId) ==
    LET existing == findExistingDm(activeProfileId, otherProfileId)
        call == [NoCall EXCEPT !.op = "createDm", !.profileId = activeProfileId,
                    !.otherId = otherProfileId, !.start = clock]
    IN /\ pendingOf(context) = {}
       /\ IF existing # Null
          THEN /\ last' = [call EXCEPT !.result = existing]
               /\ UNCHANGED pending
          ELSE /\ pending' = Append(pending,
                                    [context |-> context, activeProfileId |-> activeProfileId,
                                     otherProfileId |-> otherProfileId,
                                     seen |-> {chats[i].id : i \in 1 .. Len(chats)}])
               /\ UNCHANGED last
       /\ UNCHANGED <<clock, stores, lastSyncPing, acceptedBytes>>

\* createDm from "const now = Date.now()" on: the transaction and the publishes
createDmCommit(context) ==
    \E at \in pendingOf(context) : \E pos \in 1 .. Len(chats) + 1 :
        LET now == Now
            activeProfileId == pending[at].activeProfileId
            otherProfileId == pending[at].otherProfileId
            chat == [id |-> Len(chats) + 1, type |-> "dm", title |-> <<>>,
                     createdByProfileId |-> activeProfileId, createdAt |-> now,
                     updatedAt |-> now, lastMessageAt |-> Null]
            ids == <<activeProfileId, otherProfileId>>
            new == [i \in 1 .. 2 |->
                      [id |-> Len(memberships) + i, chatId |-> chat.id, profileId |-> ids[i],
                       role |-> IF i = 1 THEN "owner" ELSE "member",
                       joinedAt |-> now, leftAt |-> Null]]
            events == <<"chats.changed", "memberships.changed">>
        IN /\ Len(chats) < MaxChats
           /\ chats' = InsertAt(chats, pos, chat)
           /\ memberships' = memberships \o new
           /\ lastSyncPing' = publish(events, now)
           /\ last' = [NoCall EXCEPT !.op = "createDm", !.profileId = activeProfileId,
                          !.otherId = otherProfileId, !.start = clock,
                          !.result = chat.id, !.events = events]
           /\ pending' = SubSeq(pending, 1, at - 1) \o SubSeq(pending, at + 1, Len(pending))
           /\ UNCHANGED <<clock, profiles, messages, attachmentsMeta, attachmentsBlob,
                          acceptedBytes>>

NextRace ==
    \/ Tick
    \/ /\ UNCHANGED <<net, tab2, commits, prefs, mirror>>
       /\ \/ \E context \in Contexts, a \in ProfileIds, b \in ProfileIds :
                 createDmLookup(context, a, b)
          \/ \E context \in Contexts : createDmCommit(context)

SpecRace == Init /\ [][NextRace]_vars

----------------------------------------------------------------------------
(* The same calls on the two variants                                        *)
(*                                                                           *)
(* One repository of each variant, both empty at the start.  Each call is    *)
(* made on the IndexedDB repository and then, with the same arguments, on    *)
(* the Supabase repository of a session whose user is the caller.  The       *)
(* store variables hold the tables of the variant whose turn it is; mirror   *)
(* holds the tables of the other one and what each returned.                 *)

\* a failure of the backend: a network or server error.  A statement that the
\* policies of the schema refuse is refused every time, it is what the variant does.
BackendErrors == {"request failed"}

\* the stores change hands: the other variant's tables come in, these go out
changeHands(phase) ==
    /\ chats' = mirror.tables[1]
    /\ memberships' = mirror.tables[2]
    /\ messages' = mirror.tables[3]
    /\ attachmentsMeta' = mirror.tables[4]
    /\ attachmentsBlob' = mirror.tables[5]
    /\ last' = NoCall
    /\ UNCHANGED <<profiles, lastSyncPing, clock, acceptedBytes, net, tab2, commits, prefs,
                   pending>>

\* the call has returned from the IndexedDB repository
toNetworked ==
    /\ mirror.phase = "embedded"
    /\ last # NoCall
    /\ changeHands("networked")
    /\ mirror' = [mirror EXCEPT !.phase = "networked", !.tables = tables, !.embedded = last]

\* the call has returned from the Supabase repository, or has thrown
toEmbedded ==
    /\ mirror.phase = "networked"
    /\ last # NoCall
    /\ net.op = ""
    /\ changeHands("embedded")
    /\ mirror' = [mirror EXCEPT
                     !.phase = "embedded", !.tables = tables, !.networked = last,
                     !.failed = @ \/ (~last.ok /\ last.error \in BackendErrors)]

\* the caller of every call is the session's user
sessionUser == 1

\* the calls: a group made with and without other members, members added that
\* are new, repeated or in the group already, a text sent, the group left
NextBoth ==
    \/ /\ mirror.phase = "embedded"
       /\ last = NoCall
       /\ ~mirror.failed
       /\ UNCHANGED <<net, tab2, commits, prefs, pending, mirror>>
       /\ \/ \E title \in GroupTitles, members \in {<<>>, <<1, 2>>} :
                 Len(chats) = 0 /\ createGroup(title, sessionUser, members)
          \/ \E chatId \in ChatIdInputs, ids \in {<<>>, <<1, 2>>, <<2, 2>>, <<1, 1>>} :
                 addGroupMembers(chatId, sessionUser, ids)
          \/ \E chatId \in ChatIdInputs, text \in Texts :
                 sendMessage(chatId, sessionUser, text, <<>>)
          \/ \E chatId \in ChatIdInputs : leaveGroup(chatId, sessionUser)
    \/ toNetworked
    \/ /\ mirror.phase = "networked"
       /\ last = NoCall
       /\ LET call == mirror.embedded
          IN \/ call.op = "createGroup"
                   /\ createGroupNet(call.text, call.profileId, call.ids)
             \/ call.op = "addGroupMembers"
                   /\ addGroupMembersNet(call.chatId, call.profileId, call.ids)
             \/ call.op = "sendMessage"
                   /\ sendMessageNet(call.chatId, call.profileId, call.text, call.files)
             \/ call.op = "leaveGroup"
                   /\ leaveGroupNet(call.chatId, call.profileId)
    \/ mirror.phase = "networked" /\ netRequest
    \/ mirror.phase = "networked" /\ netReturn
    \/ toEmbedded

SpecBoth == Init /\ [][NextBoth]_vars

----------------------------------------------------------------------------
(* The IndexedDB operations in two tabs.  An operation first reads (awaited, *)
(* read-only transactions), then writes in one readwrite transaction; what   *)
(* it puts is computed from what it read.  A call of the other tab can run   *)
(* between the two.  pending holds, per tab, what the call has read and the  *)
(* Date.now() it took.                                                        *)

\* messages the two tabs store
MaxTabMessages == 3

\* the call of a tab between its reads and its transaction
pendingCall(context, call, now, currentMemberships, active, totalStored) ==
    [context |-> context, call |-> call, now |-> now,
     existingChat |-> [i \in 1 .. Cardinality(getChat(call.chatId)) |->
                          chats[CHOOSE j \in getChat(call.chatId) : TRUE]],
     currentMemberships |-> currentMemberships, active |-> active,
     totalStored |-> totalStored]

withoutPending(at) == SubSeq(pending, 1, at - 1) \o SubSeq(pending, at + 1, Len(pending))

\* put({...existingChat, updatedAt: now, lastMessageAt: now}) when the chat had been found
putExistingChat(existingChat, now) ==
    IF existingChat = <<>> THEN chats
    ELSE [i \in 1 .. Len(chats) |->
             IF chats[i].id = existingChat[1].id
             THEN [existingChat[1] EXCEPT !.updatedAt = now, !.lastMessageAt = now]
             ELSE chats[i]]

\* addGroupMembers up to the transaction: now, the memberships, the chat, the names
addGroupMembersRead(context, chatId, actorProfileId, profileIds) ==
    LET ids == uniqueOf(profileIds)
        call == [NoCall EXCEPT !.op = "addGroupMembers", !.chatId = chatId,
                    !.profileId = actorProfileId, !.ids = profileIds, !.start = clock,
                    !.wasActive = canProfileAccessChat(actorProfileId, chatId)]
    IN /\ pendingOf(context) = {}
       /\ IF Len(ids) = 0
          THEN last' = call /\ UNCHANGED pending
          ELSE /\ pending' = Append(pending,
                                    pendingCall(context, call, Now,
                                                getMembershipsByChat(chatId), 0, 0))
               /\ UNCHANGED last
       /\ UNCHANGED <<clock, stores, lastSyncPing, acceptedBytes>>

\* the transaction of addGroupMembers and its publishes
addGroupMembersWrite(context) ==
    \E at \in pendingOf(context) :
        LET call == pending[at].call
            now == pending[at].now
            toAdd == membersToAdd(uniqueOf(call.ids), pending[at].currentMemberships)
            new == [i \in 1 .. Len(toAdd) |->
                      [id |-> Len(memberships) + i, chatId |-> call.chatId,
                       profileId |-> toAdd[i], role |-> "member",
                       joinedAt |-> now, leftAt |-> Null]]
            notes == [i \in 1 .. Len(toAdd) |->
                        [id |-> Len(messages) + i, chatId |-> call.chatId,
                         senderProfileId |-> call.profileId, type |-> "system",
                         text |-> getProfileName(toAdd[i]) \o <<" was added to the group">>,
                         attachmentIds |-> <<>>, createdAt |-> now]]
            events == <<"memberships.changed", "messages.changed", "chats.changed">>
        IN /\ call.op = "addGroupMembers"
           /\ Len(messages) + Len(notes) <= MaxTabMessages
           /\ memberships' = memberships \o new
           /\ messages' = messages \o notes
           /\ chats' = putExistingChat(pending[at].existingChat, now)
           /\ lastSyncPing' = publish(events, Now)
           /\ last' = [call EXCEPT !.events = events]
           /\ pending' = withoutPending(at)
           /\ UNCHANGED <<clock, profiles, attachmentsMeta, attachmentsBlob, acceptedBytes>>

\* leaveGroup up to the transaction: the memberships, the active one, the chat, now
leaveGroupRead(context, chatId, profileId) ==
    LET found == {i \in 1 .. Len(memberships) :
                     /\ memberships[i].chatId = chatId
                     /\ memberships[i].profileId = profileId
                     /\ memberships[i].leftAt = Null}
        call == [NoCall EXCEPT !.op = "leaveGroup", !.chatId = chatId,
                    !.profileId = profileId, !.start = clock,
                    !.wasActive = canProfileAccessChat(profileId, chatId)]
    IN /\ pendingOf(context) = {}
       /\ IF found = {}
          THEN last' = call /\ UNCHANGED pending
          ELSE /\ \E active \in found :
                      pending' = Append(pending,
                                        pendingCall(context, call, Now, <<>>, active, 0))
               /\ UNCHANGED last
       /\ UNCHANGED <<clock, stores, lastSyncPing, acceptedBytes>>

\* the transaction of leaveGroup: the membership read before is put with leftAt = now
leaveGroupWrite(context) ==
    \E at \in pendingOf(context) :
        LET call == pending[at].call
            now == pending[at].now
            active == pending[at].active
            note == [id |-> Len(messages) + 1, chatId |-> call.chatId,
                     senderProfileId |-> call.profileId, type |-> "system",
                     text |-> getProfileName(call.profileId) \o <<" left the group">>,
                     attachmentIds |-> <<>>, createdAt |-> now]
            events == <<"memberships.changed", "messages.changed", "chats.changed">>
        IN /\ call.op = "leaveGroup"
           /\ Len(messages) < MaxTabMessages
           /\ memberships' = [memberships EXCEPT ![active].leftAt = now]
           /\ messages' = Append(messages, note)
           /\ chats' = putExistingChat(pending[at].existingChat, now)
           /\ lastSyncPing' = publish(events, Now)
           /\ last' = [call EXCEPT !.events = events]
           /\ pending' = withoutPending(at)
           /\ UNCHANGED <<clock, profiles, attachmentsMeta, attachmentsBlob, acceptedBytes>>

\* sendMessage up to the transaction: the checks, the stored total, now, the chat
sendMessageRead(context, chatId, senderProfileId, inputText, files) ==
    LET text == trim(inputText)
        call == [NoCall EXCEPT !.op = "sendMessage", !.chatId = chatId,
                    !.profileId = senderProfileId, !.text = inputText, !.files = files,
                    !.start = clock,
                    !.wasActive = canProfileAccessChat(senderProfileId, chatId)]
        totalAttachmentBytes == sumSizes(files)
        totalStored == getTotalAttachmentBytes
        error == IF text = <<>> /\ Len(files) = 0 THEN "Cannot send an empty message"
                 ELSE IF \E i \in 1 .. Len(files) : ~validateFile(files[i])
                      THEN "File is larger than 10 MB."
                 ELSE IF quotaExceeded(totalStored, totalAttachmentBytes)
                      THEN "Attachment storage limit reached."
                 ELSE ""
    IN /\ pendingOf(context) = {}
       /\ IF error # ""
          THEN last' = [call EXCEPT !.ok = FALSE, !.error = error] /\ UNCHANGED pending
          ELSE /\ pending' = Append(pending,
                                    pendingCall(context, call, Now, <<>>, 0, totalStored))
               /\ UNCHANGED last
       /\ UNCHANGED <<clock, stores, lastSyncPing, acceptedBytes>>

\* the transaction of sendMessage and its publishes
sendMessageWrite(context) ==
    \E at \in pendingOf(context) :
        LET call == pending[at].call
            now == pending[at].now
            files == call.files
            text == trim(call.text)
            messageId == Len(messages) + 1
            attachmentIds == [i \in 1 .. Len(files) |-> Len(attachmentsMeta) + i]
            metas == [i \in 1 .. Len(files) |->
                        attachmentMeta(files[i], attachmentIds[i], messageId, call.chatId, now)]
            message == [id |-> messageId, chatId |-> call.chatId,
                        senderProfileId |-> call.profileId,
                        type |-> deriveMessageType(text, files), text |-> text,
                        attachmentIds |-> attachmentIds, createdAt |-> now]
            events == <<"messages.changed", "chats.changed">>
        IN /\ call.op = "sendMessage"
           /\ Len(messages) < MaxTabMessages
           /\ attachmentsMeta' = attachmentsMeta \o metas
           /\ attachmentsBlob' = attachmentsBlob \o files
           /\ messages' = Append(messages, message)
           /\ chats' = putExistingChat(pending[at].existingChat, now)
           /\ lastSyncPing' = publish(events, Now)
           /\ last' = [call EXCEPT !.result = messageId, !.events = events]
           /\ acceptedBytes' = acceptedBytes + sumSizes(files)
           /\ pending' = withoutPending(at)
           /\ UNCHANGED <<clock, profiles, memberships>>

\* (text, files) the tabs send: a text, a file at the per-file cap, nine of them
TabSendInputs == {<<<<"h", "i">>, <<>>>>, <<<<>>, <<capFile>>>>, <<<<>>, bulk>>}

\* A chat is made; then the members add, leave and send from two tabs while
\* time passes.
NextTabs ==
    \/ Tick
    \/ /\ UNCHANGED <<net, tab2, commits, prefs, pending, mirror>>
       /\ Len(chats) = 0
       /\ \/ createDm(1, 2)
          \/ \E title \in Titles : createGroup(title, 1, <<>>)
    \/ /\ UNCHANGED <<net, tab2, commits, prefs, mirror>>
       /\ \E context \in Contexts :
              \/ \E chatId \in ChatIdInputs :
                     addGroupMembersRead(context, chatId, 1, <<2>>)
              \/ addGroupMembersWrite(context)
              \/ \E chatId \in ChatIdInputs, profileId \in ProfileIds :
                     leaveGroupRead(context, chatId, profileId)
              \/ leaveGroupWrite(context)
              \/ \E chatId \in ChatIdInputs, input \in TabSendInputs :
                     sendMessageRead(context, chatId, 1, input[1], input[2])
              \/ sendMessageWrite(context)

SpecTabs == Init /\ [][NextTabs]_vars

----------------------------------------------------------------------------
(* seedDemoDataIfNeeded, called by every tab when it boots.  The flag is in  *)
(* localStorage, which the tabs share; the profiles are read before the      *)
(* transaction that writes the demo data.                                    *)

seedNames == <<<<"A", "l", "e", "x">>, <<"S", "a", "m">>,
               <<"J", "o", "r", "d", "a", "n">>, <<"C", "a", "s", "e", "y">>>>

makeChat(id, type, title, createdByProfileId, at) ==
    [id |-> id, type |-> type, title |-> title, createdByProfileId |-> createdByProfileId,
     createdAt |-> at, updatedAt |-> at, lastMessageAt |-> at]

\* the demo profiles: createdAt: now - (index + 1) * 1000
seedProfiles(now) ==
    [k \in 1 .. 4 |->
        [id |-> Len(profiles) + k, displayName |-> seedNames[k],
         createdAt |-> now - k * 1000, updatedAt |-> now - k * 1000]]

\* dm1, dm2 and group, with the timestamps they are given before the transaction
seedChats(now) ==
    LET alex == Len(profiles) + 1
        first == Len(chats)
    IN <<[makeChat(first + 1, "dm", <<>>, alex, now - 600000)
             EXCEPT !.lastMessageAt = now - 580000, !.updatedAt = now - 580000],
         [makeChat(first + 2, "dm", <<>>, alex, now - 500000)
             EXCEPT !.lastMessageAt = now - 490000, !.updatedAt = now - 490000],
         [makeChat(first + 3, "group", <<"Weekend Plans">>, alex, now - 400000)
             EXCEPT !.lastMessageAt = now - 360000, !.updatedAt = now - 360000]>>

seedMemberships(now) ==
    LET p == Len(profiles)
        c == Len(chats)
        rows == <<<<c + 1, p + 1, "owner">>, <<c + 1, p + 2, "member">>,
                  <<c + 2, p + 1, "owner">>, <<c + 2, p + 3, "member">>,
                  <<c + 3, p + 1, "owner">>, <<c + 3, p + 2, "member">>,
                  <<c + 3, p + 4, "member">>>>
    IN [k \in 1 .. 7 |->
           [id |-> Len(memberships) + k, chatId |-> rows[k][1], profileId |-> rows[k][2],
            role |-> rows[k][3], joinedAt |-> now - 390000 + (k - 1) * 1000,
            leftAt |-> Null]]

seedMessages(now) ==
    LET p == Len(profiles)
        c == Len(chats)
        a == Len(attachmentsMeta)
        rows == <<<<c + 1, p + 2, "text", <<"Hey Alex, did you see the draft?">>, <<>>, 590000>>,
                  <<c + 1, p + 1, "text", <<"Yes, looks good. I left comments.">>, <<>>, 580000>>,
                  <<c + 2, p + 3, "text", <<"Sending the checklist in a sec.">>, <<>>, 490000>>,
                  <<c + 3, p + 1, "system", <<"Group created">>, <<>>, 390000>>,
                  <<c + 3, p + 4, "text", <<"Saturday works for me.">>, <<>>, 380000>>,
                  <<c + 3, p + 2, "image", <<"Mockup preview">>, <<a + 1>>, 370000>>,
                  <<c + 3, p + 1, "file", <<>>, <<a + 2>>, 360000>>>>
    IN [k \in 1 .. 7 |->
           [id |-> Len(messages) + k, chatId |-> rows[k][1], senderProfileId |-> rows[k][2],
            type |-> rows[k][3], text |-> rows[k][4], attachmentIds |-> rows[k][5],
            createdAt |-> now - rows[k][6]]]

\* svgBlob and textBlob
seedBlobs ==
    <<[name |-> <<"mockup-preview.svg">>,
       type |-> ImagePrefix \o <<"s", "v", "g", "+", "x", "m", "l">>,
       size |-> 700, content |-> "bytes-svg"],
      [name |-> <<"weekend-checklist.txt">>,
       type |-> <<"t", "e", "x", "t", "/", "p", "l", "a", "i", "n">>,
       size |-> 47, content |-> "bytes-txt"]>>

\* imageMeta and fileMeta
seedMetas(now) ==
    LET group == Len(chats) + 3
        a == Len(attachmentsMeta)
    IN <<[id |-> a + 1, messageId |-> Len(messages) + 6, chatId |-> group,
          kind |-> "image", fileName |-> seedBlobs[1].name, mimeType |-> seedBlobs[1].type,
          sizeBytes |-> seedBlobs[1].size, blobKey |-> a + 1, createdAt |-> now - 370000],
         [id |-> a + 2, messageId |-> Len(messages) + 7, chatId |-> group,
          kind |-> "file", fileName |-> seedBlobs[2].name, mimeType |-> seedBlobs[2].type,
          sizeBytes |-> seedBlobs[2].size, blobKey |-> a + 2, createdAt |-> now - 360000]>>

\* seedDemoDataIfNeeded up to "const now = Date.now()": the flag, the profiles
seedDemoDataIfNeededRead(context) ==
    LET call == [NoCall EXCEPT !.op = "seedDemoDataIfNeeded", !.profileId = context,
                    !.start = clock]
    IN /\ pendingOf(context) = {}
       /\ IF prefs.hasSeededDemoData
          THEN last' = call /\ UNCHANGED <<pending, prefs>>
          ELSE IF Len(profiles) > 0
          THEN /\ prefs' = [prefs EXCEPT !.hasSeededDemoData = TRUE]
               /\ last' = call
               /\ UNCHANGED pending
          ELSE /\ pending' = Append(pending, [context |-> context, call |-> call])
               /\ UNCHANGED <<last, prefs>>
       /\ UNCHANGED <<clock, stores, lastSyncPing, acceptedBytes>>

\* the rest: the demo records, the transaction, the preferences, the publishes
seedDemoDataIfNeededWrite(context) ==
    \E at \in pendingOf(context) :
        LET now == Now
            events == <<"seed.completed", "profiles.changed", "chats.changed",
                        "memberships.changed", "messages.changed">>
        IN /\ profiles' = profiles \o seedProfiles(now)
           /\ chats' = chats \o seedChats(now)
           /\ memberships' = memberships \o seedMemberships(now)
           /\ messages' = messages \o seedMessages(now)
           /\ attachmentsMeta' = attachmentsMeta \o seedMetas(now)
           /\ attachmentsBlob' = attachmentsBlob \o seedBlobs
           /\ prefs' = [prefs EXCEPT !.activeProfileId = Len(profiles) + 1,
                                     !.hasSeededDemoData = TRUE]
           /\ lastSyncPing' = publish(events, Now)
           /\ last' = [pending[at].call EXCEPT !.events = events]
           /\ pending' = withoutPending(at)
           /\ UNCHANGED <<clock, acceptedBytes>>

\* Two tabs boot, once or again, on a browser that has no data, or where a
\* profile is made first.
NextSeed ==
    \/ Tick
    \/ /\ UNCHANGED <<net, tab2, commits, pending, mirror>>
       /\ \E name \in {<<"A", "l">>, <<"B", "o">>} : createProfile(name)
    \/ /\ UNCHANGED <<net, tab2, commits, mirror>>
       /\ \E context \in Contexts :
              \/ seedDemoDataIfNeededRead(context)
              \/ seedDemoDataIfNeededWrite(context)

SpecSeed == InitAccounts /\ [][NextSeed]_vars

\* Chats made, joined and left while time passes, so that the chats differ in
\* their timestamps.
NextTimed ==
    \/ Tick
    \/ /\ UNCHANGED <<net, tab2, commits, prefs, pending, mirror>>
       /\ \/ \E other \in ProfileIds \ {1} : createDm(1, other)
          \/ \E title \in Titles, owner \in ProfileIds, members \in MemberLists :
                 createGroup(title, owner, members)
          \/ \E chatId \in ChatIdInputs, ids \in MemberLists :
                 \E actor \in {p \in ProfileIds : canProfileAccessChat(p, chatId)} :
                     addGroupMembers(chatId, actor, ids)
          \/ \E chatId \in ChatIdInputs, profileId \in ProfileIds :
                 leaveGroup(chatId, profileId)

SpecTimed == Init /\ [][NextTimed]_vars

----------------------------------------------------------------------------
(* Shared vocabulary of the properties *)

\* the profiles holding an active membership in a chat
ActiveSet(chatId) ==
    {memberships[i].profileId :
        i \in {j \in 1 .. Len(memberships) :
                   memberships[j].chatId = chatId /\ memberships[j].leftAt = Null}}

DirectChatsOf(a, b) ==
    {i \in 1 .. Len(chats) : chats[i].type = "dm" /\ ActiveSet(chats[i].id) = {a, b}}

\* the step is a repository call (Tick leaves `last` alone)
IsCall == last' # last

----------------------------------------------------------------------------
(* C1 .. C10 *)

\* C1: in every reachable state, for every unordered pair of profiles {A,B}
\* there is at most one chat of kind direct whose set of active memberships is
\* exactly {A,B}.
C1_DirectChatUnique ==
    \A a \in ProfileIds, b \in ProfileIds :
        a # b => Cardinality(DirectChatsOf(a, b)) <= 1

\* C2: of two successive createDm calls on the same pair of distinct profiles
\* (in the same or in the swapped order) the second returns the chat id the
\* first returned and writes no Chat and no ChatMembership record.
C2_CreateDirectIdempotent ==
    [][(/\ last.op = "createDm"
        /\ last'.op = "createDm"
        /\ last.profileId # last.otherId
        /\ {last'.profileId, last'.otherId} = {last.profileId, last.otherId})
       => (/\ last'.result = last.result
           /\ chats' = chats
           /\ memberships' = memberships)]_vars

\* a createDm on two distinct profiles that returned the chat a createDm made
\* before, in a store that also holds a second chat
C2_Witness ==
    /\ last.op = "createDm"
    /\ last.profileId # last.otherId
    /\ last.events = <<>>
    /\ Len(chats) = 2
    /\ \E i \in 1 .. Len(chats) :
          /\ chats[i].id = last.result
          /\ chats[i].type = "dm"
          /\ ActiveSet(chats[i].id) = {last.profileId, last.otherId}

\* C3: in every reachable state at most one ChatMembership with leftAt = null
\* exists for each (chat id, profile id) pair.
C3_OneActiveMembership ==
    \A i \in 1 .. Len(memberships), j \in 1 .. Len(memberships) :
        (/\ i # j
         /\ memberships[i].chatId = memberships[j].chatId
         /\ memberships[i].profileId = memberships[j].profileId)
        => ~(memberships[i].leftAt = Null /\ memberships[j].leftAt = Null)

\* C4: a sendMessage stores a message only when the sender held an active
\* membership in the chat when the call was issued, and an addGroupMembers
\* creates memberships only when the actor held one.
C4_WritesOnlyForMembers ==
    [][(/\ IsCall
        /\ \/ last'.op = "sendMessage" /\ Len(messages') > Len(messages)
           \/ last'.op = "addGroupMembers" /\ Len(memberships') > Len(memberships))
       => canProfileAccessChat(last'.profileId, last'.chatId)]_vars

\* C10: when leaveGroup(chat, p) has returned for a profile p that held an
\* active membership in the chat, canProfileAccessChat(p, chat) is false and the
\* chat holds a system message naming p, created at or after the start of the call.
C10_LeftHasNoAccess ==
    (last.op = "leaveGroup" /\ last.wasActive)
    => /\ ~canProfileAccessChat(last.profileId, last.chatId)
       /\ \E i \in 1 .. Len(messages) :
             /\ messages[i].chatId = last.chatId
             /\ messages[i].type = "system"
             /\ messages[i].senderProfileId = last.profileId
             /\ messages[i].text = getProfileName(last.profileId) \o <<" left the group">>
             /\ messages[i].createdAt >= last.start

\* C5: after any sequence of sends, accepted or rejected, the sizes of the
\* stored AttachmentMeta records add up to at most maxTotalBytes and each of
\* them is at most maxFileBytes.
C5_WithinCaps ==
    /\ getTotalAttachmentBytes <= maxTotalBytes
    /\ \A i \in 1 .. Len(attachmentsMeta) : attachmentsMeta[i].sizeBytes <= maxFileBytes

\* the store is filled to the total cap exactly and a send has just been rejected
C5_Witness ==
    /\ getTotalAttachmentBytes = maxTotalBytes
    /\ last.op = "sendMessage"
    /\ ~last.ok
    /\ last.files # <<>>

\* nothing of a send is stored and nothing is published
SendLeftNoTrace ==
    /\ ~last'.ok
    /\ last'.events = <<>>
    /\ UNCHANGED <<messages, attachmentsMeta, attachmentsBlob, chats, lastSyncPing>>

\* C6: a send whose files would take the stored total above maxTotalBytes
\* fails and stores no Message, AttachmentMeta or Blob, leaves the chat's
\* timestamps alone and publishes no event.
C6_OverTotalRejectedWhole ==
    [][(/\ IsCall
        /\ last'.op = "sendMessage"
        /\ sumSizeBytes(attachmentsMeta) + sumSizes(last'.files) > maxTotalBytes)
       => SendLeftNoTrace]_vars

\* a send of two files, each within the per-file cap, rejected for the total
C6_Witness ==
    /\ last.op = "sendMessage"
    /\ ~last.ok
    /\ Len(last.files) = 2
    /\ \A i \in 1 .. Len(last.files) : last.files[i].size <= maxFileBytes
    /\ sumSizeBytes(attachmentsMeta) + sumSizes(last.files) > maxTotalBytes
    /\ sumSizeBytes(attachmentsMeta) + last.files[1].size <= maxTotalBytes

\* C7: a send with at least one file larger than maxFileBytes fails and
\* changes nothing: no Message, AttachmentMeta or Blob is stored, the total of
\* the stored attachment bytes is the same, and no event is published.
C7_OversizedFileRejected ==
    [][(/\ IsCall
        /\ last'.op = "sendMessage"
        /\ \E i \in 1 .. Len(last'.files) : last'.files[i].size > maxFileBytes)
       => (/\ SendLeftNoTrace
           /\ getTotalAttachmentBytes' = getTotalAttachmentBytes)]_vars

\* a rejected send of a file within the cap together with one above it
C7_Witness ==
    /\ last.op = "sendMessage"
    /\ ~last.ok
    /\ \E i \in 1 .. Len(last.files) : last.files[i].size > maxFileBytes
    /\ \E i \in 1 .. Len(last.files) : last.files[i].size <= maxFileBytes

\* C8: a send with no files whose text is empty or only whitespace fails and
\* stores nothing, changes no chat timestamp and publishes no event.
C8_EmptySendRejected ==
    [][(/\ IsCall
        /\ last'.op = "sendMessage"
        /\ last'.files = <<>>
        /\ \A i \in 1 .. Len(last'.text) : IsSpace(last'.text[i]))
       => SendLeftNoTrace]_vars

\* a rejected send of whitespace-only text to a chat that holds a message
C8_Witness ==
    /\ last.op = "sendMessage"
    /\ ~last.ok
    /\ last.files = <<>>
    /\ last.text # <<>>
    /\ \E i \in 1 .. Len(messages) : messages[i].chatId = last.chatId

C12_AddsOnlyNewMembers ==
    [][(IsCall /\ last'.op = "addGroupMembers")
       => LET added == SubSeq(memberships', Len(memberships) + 1, Len(memberships'))
              notes == SubSeq(messages', Len(messages) + 1, Len(messages'))
          IN /\ SubSeq(memberships', 1, Len(memberships)) = memberships
             /\ SubSeq(messages', 1, Len(messages)) = messages
             /\ \A i \in 1 .. Len(added) :
                    /\ added[i].chatId = last'.chatId
                    /\ \E k \in 1 .. Len(last'.ids) : last'.ids[k] = added[i].profileId
                    /\ ~canProfileAccessChat(added[i].profileId, last'.chatId)
                    /\ \A j \in 1 .. Len(added) : added[j].profileId = added[i].profileId => j = i
             /\ Len(notes) = Len(added)
             /\ \A i \in 1 .. Len(notes) :
                    notes[i].type = "system" /\ notes[i].chatId = last'.chatId]_vars

\* a list of the actor, who is a member, and of another profile, who was added
C12_Witness ==
    /\ last.op = "addGroupMembers"
    /\ last.wasActive
    /\ Len(last.ids) = 2
    /\ last.ids[1] # last.ids[2]
    /\ \E k \in 1 .. 2 : last.ids[k] = last.profileId
    /\ memberships # <<>>
    /\ memberships[Len(memberships)].chatId = last.chatId
    /\ memberships[Len(memberships)].profileId # last.profileId
    /\ memberships[Len(memberships)].joinedAt = last.start
    /\ messages # <<>>
    /\ messages[Len(messages)].chatId = last.chatId
    /\ messages[Len(messages)].text
           = getProfileName(memberships[Len(memberships)].profileId)
                 \o <<" was added to the group">>
    /\ Cardinality({i \in 1 .. Len(memberships) :
                       /\ memberships[i].chatId = last.chatId
                       /\ memberships[i].profileId = last.profileId}) = 1

\* C13: addMembers changes nothing when there is nobody to add, because the
\* list is empty or every listed id is an active member already: no store
\* changes, the chat keeps its updatedAt and lastMessageAt, nothing is published.
C13_EmptyAddSetNoOp ==
    [][(/\ IsCall
        /\ last'.op = "addGroupMembers"
        /\ \A k \in 1 .. Len(last'.ids) : canProfileAccessChat(last'.ids[k], last'.chatId))
       => (/\ UNCHANGED <<profiles, chats, memberships, messages, attachmentsMeta,
                          attachmentsBlob, lastSyncPing>>
           /\ last'.events = <<>>)]_vars

\* C14: every chat in the list getVisibleChats(p) returns is one that p can
\* access; a chat p has left is not in the list.
C14_VisibleChatsAccessible ==
    \A p \in ProfileIds :
        \A i \in 1 .. Len(getVisibleChatsForProfile(p)) :
            \E k \in 1 .. Len(memberships) :
                /\ memberships[k].chatId = getVisibleChatsForProfile(p)[i].chat.id
                /\ memberships[k].profileId = p
                /\ memberships[k].leftAt = Null

\* a profile that has left one chat and still sees another
C14_Witness ==
    \E p \in ProfileIds :
        /\ Len(getVisibleChatsForProfile(p)) = 1
        /\ \E k \in 1 .. Len(memberships) :
               /\ memberships[k].profileId = p
               /\ memberships[k].leftAt # Null
               /\ memberships[k].chatId # getVisibleChatsForProfile(p)[1].chat.id
               /\ ~canProfileAccessChat(p, memberships[k].chatId)

\* lastMessageAt of the chat of a list item when it has one, else its updatedAt
EffectiveAt(item) ==
    IF item.chat.lastMessageAt = Null THEN item.chat.updatedAt ELSE item.chat.lastMessageAt

\* C15: the list getVisibleChats(p) returns is in descending order of the
\* effective last-activity timestamp: of two adjacent items the first has the
\* greater or the same one.
C15_VisibleChatsNewestFirst ==
    \A p \in ProfileIds :
        \A i \in 1 .. Len(getVisibleChatsForProfile(p)) - 1 :
            EffectiveAt(getVisibleChatsForProfile(p)[i])
                >= EffectiveAt(getVisibleChatsForProfile(p)[i + 1])

\* two chats listed against their store order, the older of them without a message
C15_Witness ==
    \E p \in ProfileIds :
        /\ Len(getVisibleChatsForProfile(p)) = 2
        /\ Len(chats) = 2
        /\ getVisibleChatsForProfile(p)[1].chat = chats[2]
        /\ getVisibleChatsForProfile(p)[2].chat.lastMessageAt = Null
        /\ EffectiveAt(getVisibleChatsForProfile(p)[1])
               > EffectiveAt(getVisibleChatsForProfile(p)[2])

\* a networked call returns or throws in this step
NetCallEnds == net.op # "" /\ net'.op = ""

\* C11: leaveGroup for a profile without an active membership in the chat is
\* a no-op in both variants: it returns, having added no system message,
\* changed no membership, left the chat's timestamps alone and published
\* nothing.  (A request that fails for the network is not held against it.)
C11_LeaveWithoutMembershipNoOp ==
    [][(/\ net.op = "leaveGroup" \/ (IsCall /\ last'.op = "leaveGroup")
        /\ ~(IF net.op = "leaveGroup" THEN net.call.wasActive ELSE last'.wasActive))
       => (/\ UNCHANGED <<chats, memberships, messages, lastSyncPing>>
           /\ (IsCall => (/\ last'.events = <<>>
                          /\ last'.ok \/ last'.error = "request failed")))]_vars

\* C18: events are published only when the writes of the call are done, a call
\* that has written publishes at least one event, and a call that fails
\* publishes none.
C18_PublishAfterCommit ==
    [][/\ (lastSyncPing' # lastSyncPing)
             => (net.op # "" /\ net.requests = <<>> /\ UNCHANGED tables)
       /\ NetCallEnds
             => /\ (tables # net.before) => last'.events # <<>>
                /\ ~last'.ok => (last'.events = <<>> /\ lastSyncPing' = lastSyncPing)]_vars

\* C19: a call of which a storage or network step fails after its first write
\* leaves none of its records behind.
C19_AllOrNothing ==
    [][(NetCallEnds /\ ~last'.ok) => tables = net.before]_vars

\* C20: in every state a reader can see, the attachmentIds of a stored message
\* are the ids of the stored AttachmentMeta records of that message, and each
\* of these has its blob.
C20_MessageWithItsAttachments ==
    \A i \in 1 .. Len(messages) :
        LET metas == SelectSeq(attachmentsMeta, LAMBDA meta : meta.messageId = messages[i].id)
        IN /\ messages[i].attachmentIds = [k \in 1 .. Len(metas) |-> metas[k].id]
           /\ \A k \in 1 .. Len(metas) : metas[k].blobKey \in 1 .. Len(attachmentsBlob)

\* C16: every sendMessage that commits in tab 1 has tab 2 handed a
\* messages.changed event, with or without a BroadcastChannel.
C16_SendReachesOtherTab ==
    [][(last'.op = "sendMessage" /\ last'.ok /\ commits' = commits + 1)
       => \E i \in Len(tab2.inbox) + 1 .. Len(tab2.inbox') :
              tab2.inbox'[i].type = "messages.changed"]_vars

\* C17: once tab 2 has handled every event it was handed, its last re-query
\* came after the last transaction tab 1 committed.
C17_NotifiedTabNotStale == (tab2.inbox = <<>>) => (tab2.seen = commits)

\* position of a message in the order the messages were put
PutIndex(message) == CHOOSE i \in 1 .. Len(messages) : messages[i] = message

\* C24: getMessages(chat) returns exactly the messages of the chat, in
\* ascending createdAt, and messages of equal createdAt in the order in which
\* they were inserted.
C24_MessagesOldestFirstStable ==
    \A chatId \in ChatIdInputs, keyOrder \in KeyOrders :
        LET result == getMessages(chatId, keyOrder)
        IN /\ {result[i].message : i \in 1 .. Len(result)}
                  = {messages[i] : i \in {j \in 1 .. Len(messages) : messages[j].chatId = chatId}}
           /\ \A i \in 1 .. Len(result) - 1 :
                  \/ result[i].message.createdAt < result[i + 1].message.createdAt
                  \/ /\ result[i].message.createdAt = result[i + 1].message.createdAt
                     /\ PutIndex(result[i].message) < PutIndex(result[i + 1].message)

\* C25: after a successful sendMessage with files, getMessages on the chat
\* returns on that message, for each file sent, an attachment whose blob is
\* the file and whose fileName, mimeType and sizeBytes are the file's name,
\* type and size.
C25_AttachmentRoundTrip ==
    (last.op = "sendMessage" /\ last.ok /\ last.files # <<>>)
    => \A keyOrder \in KeyOrders :
          LET result == getMessages(last.chatId, keyOrder)
          IN \E i \in 1 .. Len(result) :
                /\ result[i].message.id = last.result
                /\ \A k \in 1 .. Len(last.files) :
                      \E a \in 1 .. Len(result[i].attachments) :
                          LET attachment == result[i].attachments[a]
                          IN /\ attachment.blob = last.files[k]
                             /\ attachment.meta.fileName = last.files[k].name
                             /\ attachment.meta.mimeType = last.files[k].type
                             /\ attachment.meta.sizeBytes = last.files[k].size

\* C26: the type of a message sendMessage stores is text without files, image
\* or file for one file and an empty trimmed text (image iff the file's type
\* starts with "image/"), mixed otherwise, and never system.
C26_TypeFromTextAndFiles ==
    [][(IsCall /\ last'.op = "sendMessage" /\ last'.ok)
       => LET message == messages'[Len(messages')]
              text == trim(last'.text)
              files == last'.files
          IN /\ Len(messages') = Len(messages) + 1
             /\ message.type # "system"
             /\ (Len(files) = 0) => message.type = "text"
             /\ (Len(files) = 1 /\ text = <<>>)
                    => message.type = (IF startsWith(files[1].type, <<"i", "m", "a", "g", "e", "/">>)
                                       THEN "image" ELSE "file")
             /\ (Len(files) > 1 \/ (Len(files) = 1 /\ text # <<>>))
                    => message.type = "mixed"]_vars

\* an image sent with a text of whitespace only, and so stored as image
C26_Witness ==
    /\ last.op = "sendMessage"
    /\ last.ok
    /\ last.text = <<" ">>
    /\ last.files = <<smallImage>>
    /\ messages[Len(messages)].type = "image"

\* t is s without its leading and trailing spaces
IsTrimOf(t, s) ==
    \E i \in 1 .. Len(s) + 1 : \E j \in 0 .. Len(s) :
        /\ t = SubSeq(s, i, j)
        /\ \A k \in 1 .. Len(s) : (k < i \/ k > j) => s[k] = " "
        /\ t # <<>> => (t[1] # " " /\ t[Len(t)] # " ")

\* C23: createGroup(title, owner, members) adds exactly one chat, of type
\* group, titled with the trimmed title or "Untitled Group" when that is
\* empty; exactly one active membership per distinct id of owner and members,
\* the owner's the only one of role owner; and exactly one system message
\* "Group created" in the chat.
C23_CreateGroupResult ==
    [][(IsCall /\ last'.op = "createGroup")
       => LET owner == last'.profileId
              distinct == {owner} \cup {last'.ids[i] : i \in 1 .. Len(last'.ids)}
              newChats == {i \in 1 .. Len(chats') : chats'[i].id = last'.result}
              added == SubSeq(memberships', Len(memberships) + 1, Len(memberships'))
          IN /\ Len(chats') = Len(chats) + 1
             /\ Cardinality(newChats) = 1
             /\ \A i \in 1 .. Len(chats) : chats[i].id # last'.result
             /\ \A i \in newChats :
                    /\ chats'[i].type = "group"
                    /\ \/ IsTrimOf(chats'[i].title, last'.text) /\ chats'[i].title # <<>>
                       \/ IsTrimOf(<<>>, last'.text)
                            /\ chats'[i].title = <<"Untitled Group">>
             /\ SubSeq(memberships', 1, Len(memberships)) = memberships
             /\ Len(added) = Cardinality(distinct)
             /\ \A d \in distinct :
                    \E i \in 1 .. Len(added) :
                        /\ added[i].profileId = d
                        /\ added[i].chatId = last'.result
                        /\ added[i].leftAt = Null
                        /\ (added[i].role = "owner") <=> (d = owner)
             /\ Len(messages') = Len(messages) + 1
             /\ SubSeq(messages', 1, Len(messages)) = messages
             /\ messages'[Len(messages')].chatId = last'.result
             /\ messages'[Len(messages')].type = "system"
             /\ messages'[Len(messages')].text = <<"Group created">>]_vars

\* a group made with a title of spaces, the owner among the members and an id
\* given twice
C23_Witness ==
    /\ last.op = "createGroup"
    /\ last.text = <<" ", " ">>
    /\ last.ids = <<2, 1, 2>>
    /\ Len(memberships) = 2
    /\ \E i \in 1 .. Len(chats) : chats[i].id = last.result /\ chats[i].title = UntitledGroup

\* C22: every Message, ChatMembership and AttachmentMeta record refers to the
\* id of a stored Chat: a call with a chat id no chat has writes nothing.
C22_RecordsReferToChats ==
    LET chatIds == {chats[i].id : i \in 1 .. Len(chats)}
    IN /\ \A i \in 1 .. Len(messages) : messages[i].chatId \in chatIds
       /\ \A i \in 1 .. Len(memberships) : memberships[i].chatId \in chatIds
       /\ \A i \in 1 .. Len(attachmentsMeta) : attachmentsMeta[i].chatId \in chatIds

\* C27: createProfile(name) fails, storing no Profile and publishing nothing,
\* when the trimmed name is empty or longer than 64; a Profile it stores has
\* a displayName of 1 to 64 characters without leading or trailing space.
C27_CreateProfileValidatesName ==
    [][(IsCall /\ last'.op = "createProfile")
       => /\ (\E t \in {SubSeq(last'.text, i, j) :
                           i \in 1 .. Len(last'.text) + 1, j \in 0 .. Len(last'.text)} :
                  IsTrimOf(t, last'.text) /\ (Len(t) = 0 \/ Len(t) > 64))
                 => (~last'.ok /\ profiles' = profiles /\ lastSyncPing' = lastSyncPing)
          /\ \A i \in Len(profiles) + 1 .. Len(profiles') :
                 /\ Len(profiles'[i].displayName) \in 1 .. 64
                 /\ profiles'[i].displayName[1] # " "
                 /\ profiles'[i].displayName[Len(profiles'[i].displayName)] # " "]_vars

\* C28: signUpLocalAccount with a Profile already stored fails and changes
\* neither the profile store nor the active and authenticated ids nor the
\* sync slot; a sign-up succeeds only on an empty profile store, which it
\* fills, and the store never shrinks: at most one sign-up succeeds.
C28_SecondSignUpRejected ==
    [][/\ (IsCall /\ last'.op = "signUpLocalAccount" /\ Len(profiles) > 0)
             => /\ ~last'.ok
                /\ last'.events = <<>>
                /\ UNCHANGED <<profiles, prefs, lastSyncPing>>
       /\ (IsCall /\ last'.op = "signUpLocalAccount" /\ last'.ok)
             => (Len(profiles) = 0 /\ Len(profiles') = 1)
       /\ Len(profiles') >= Len(profiles)]_vars

\* a sign-up refused because the account of an earlier sign-up exists
C28_Witness ==
    /\ last.op = "signUpLocalAccount"
    /\ ~last.ok
    /\ Len(profiles) = 1
    /\ "passwordHash" \in DOMAIN profiles[1]
    /\ prefs.authenticatedProfileId = 1

\* C29: signInLocalAccount never changes the profile store; it fails when no
\* account is present; when it fails, the active and authenticated ids keep
\* their values; and when it succeeds, the account signed in has a stored
\* digest which is the hash of the given password under the stored salt and
\* iteration count.
C29_FailedSignInChangesNothing ==
    [][(IsCall /\ last'.op = "signInLocalAccount")
       => /\ profiles' = profiles
          /\ Len(profiles) = 0 => ~last'.ok
          /\ ~last'.ok => prefs' = prefs
          /\ last'.ok =>
                \E i \in 1 .. Len(profiles) :
                    /\ profiles[i].id = last'.result
                    /\ "passwordHash" \in DOMAIN profiles[i]
                    /\ profiles[i].passwordHash
                          = <<last'.password, profiles[i].passwordSalt,
                              profiles[i].passwordIterations>>]_vars

\* a sign-in with the wrong password, refused while nobody is signed in
C29_Witness ==
    /\ last.op = "signInLocalAccount"
    /\ ~last.ok
    /\ last.error = "Incorrect password"
    /\ prefs.authenticatedProfileId = Null
    /\ \E i \in 1 .. Len(profiles) :
           /\ "passwordHash" \in DOMAIN profiles[i]
           /\ profiles[i].passwordHash[1] # last.password

\* C30: a createDm that looks up when a direct chat of the pair is stored
\* returns the id of such a chat and writes nothing, so two calls of which one
\* commits before the other looks up return the same id; a createDm goes on to
\* insert only when its lookup found no chat of the pair; and a second direct
\* chat of a pair is stored only by a call whose lookup came before the other
\* chats of the pair were committed.
C30_DuplicateOnlyByRace ==
    [][/\ (IsCall /\ pending' = pending /\ last'.op = "createDm")
             => /\ \E i \in DirectChatsOf(last'.profileId, last'.otherId) :
                       chats[i].id = last'.result
                /\ UNCHANGED stores
       /\ (Len(pending') > Len(pending))
             => DirectChatsOf(pending'[Len(pending')].activeProfileId,
                              pending'[Len(pending')].otherProfileId) = {}
       /\ (Len(pending') < Len(pending))
             => \E at \in 1 .. Len(pending) :
                    /\ pending[at].activeProfileId = last'.profileId
                    /\ pending[at].otherProfileId = last'.otherId
                    /\ \A i \in DirectChatsOf(last'.profileId, last'.otherId) :
                           chats[i].id \notin pending[at].seen]_vars

\* both tabs looked up before either committed: two direct chats of profiles 1
\* and 2
C30_Witness ==
    /\ pending = <<>>
    /\ Cardinality(DirectChatsOf(1, 2)) = 2

\* the records of a store, whatever their order in it
RecordsOf(store) == {store[i] : i \in 1 .. Len(store)}

\* the two variants hold the same records
SameTables(a, b) == \A t \in 1 .. 5 : RecordsOf(a[t]) = RecordsOf(b[t])

\* C21: the Embedded and the Networked variant are interchangeable: after the
\* same sequence of calls by the session's user, none of which met a backend
\* failure, the two stores hold the same records, each call succeeded or
\* failed in both, and both published the same sequence of event types.
C21_VariantsInterchangeable ==
    (mirror.phase = "embedded" /\ last = NoCall /\ ~mirror.failed)
        => /\ SameTables(tables, mirror.tables)
           /\ mirror.embedded.ok = mirror.networked.ok
           /\ mirror.embedded.events = mirror.networked.events

\* C39: the caps are inclusive.  A send with text or files is accepted when
\* every file is at most maxFileBytes and the stored total with the new files
\* is at most maxTotalBytes, equality included; it is rejected when a file has
\* maxFileBytes + 1 bytes or more, or the total would be maxTotalBytes + 1 or
\* more.
C39_CapsInclusive ==
    [][(/\ IsCall
        /\ last'.op = "sendMessage"
        /\ (trim(last'.text) # <<>> \/ last'.files # <<>>))
       => (last'.ok <=>
              /\ \A i \in 1 .. Len(last'.files) : last'.files[i].size < maxFileBytes + 1
              /\ sumSizeBytes(attachmentsMeta) + sumSizes(last'.files)
                     < maxTotalBytes + 1)]_vars

\* a file of exactly maxFileBytes was accepted, the store was filled to
\* maxTotalBytes exactly, and a send of one more byte has been rejected
C39_Witness ==
    /\ getTotalAttachmentBytes = maxTotalBytes
    /\ \E i \in 1 .. Len(attachmentsMeta) : attachmentsMeta[i].sizeBytes = maxFileBytes
    /\ last.op = "sendMessage"
    /\ ~last.ok
    /\ sumSizes(last.files) = 1

----------------------------------------------------------------------------
(* C31 .. C38 *)

\* the memberships of a profile in a chat, active or closed
MembershipsOf(chatId, profileId, isActive) ==
    {i \in 1 .. Len(memberships) :
        /\ memberships[i].chatId = chatId
        /\ memberships[i].profileId = profileId
        /\ (memberships[i].leftAt = Null) = isActive}

\* the "was added" notes of a chat for a profile
AddedNotesOf(chatId, profileId) ==
    {i \in 1 .. Len(messages) :
        /\ messages[i].chatId = chatId
        /\ messages[i].type = "system"
        /\ messages[i].text = getProfileName(profileId) \o <<" was added to the group">>}

\* C31: when two tabs call addGroupMembers on the same chat with the same
\* profile that is not yet a member, in any interleaving of their reads and
\* transactions, the store holds at most one active membership of the profile
\* in the chat and at most one "was added" note for it (one more for every
\* membership of the profile that has been closed since).
C31_ConcurrentAddOnce ==
    \A chatId \in ChatIdInputs :
        /\ Cardinality(MembershipsOf(chatId, 2, TRUE)) <= 1
        /\ Cardinality(AddedNotesOf(chatId, 2))
               <= Cardinality(MembershipsOf(chatId, 2, FALSE)) + 1

\* C32: the total cap holds across tabs: when two tabs send files at the same
\* time, each reading the stored total before either writes, the sizes of the
\* stored AttachmentMeta records still add up to at most maxTotalBytes once
\* no send is in progress.
C32_TotalCapAcrossTabs ==
    (pending = <<>>) => sumSizeBytes(getAllAttachmentMeta) <= maxTotalBytes

\* C33: getVisibleChatsForProfile(p) is complete: every chat id for which p
\* holds an active membership is the chat of exactly one item of the returned
\* list, also when p holds more than one active membership in that chat.
C33_VisibleChatsComplete ==
    \A p \in ProfileIds :
        \A i \in 1 .. Len(memberships) :
            (memberships[i].profileId = p /\ memberships[i].leftAt = Null)
                => Cardinality({k \in 1 .. Len(getVisibleChatsForProfile(p)) :
                                   getVisibleChatsForProfile(p)[k].chat.id
                                       = memberships[i].chatId}) = 1

C35_ActivityTimestampNeverLags ==
    [][/\ \A i \in 1 .. Len(chats') :
              \A k \in 1 .. Len(messages') :
                  messages'[k].chatId = chats'[i].id
                      => /\ chats'[i].lastMessageAt # Null
                         /\ chats'[i].lastMessageAt >= messages'[k].createdAt
       /\ \A i \in 1 .. Len(chats) :
              \A j \in 1 .. Len(chats') :
                  chats'[j].id = chats[i].id
                      => /\ chats'[j].updatedAt >= chats[i].updatedAt
                         /\ coalesce(chats[i].lastMessageAt, 0)
                                <= coalesce(chats'[j].lastMessageAt, 0)]_vars

\* the stored profile with the given id, as a set of indices
ProfileAt(profileId) == {i \in 1 .. Len(profiles) : profiles[i].id = profileId}

\* the password of the call is the one the stored digest of the profile was made from
PresentsCurrentPassword(i) ==
    /\ hasPasswordRecord(profiles[i])
    /\ verifyPassword(last'.password,
                      [salt |-> profiles[i].passwordSalt, hash |-> profiles[i].passwordHash,
                       iterations |-> profiles[i].passwordIterations])

\* C36: the authenticated profile id is set to a profile only by the sign-up
\* that created the profile in the same call, or by a call whose password was
\* verified against the stored digest of the profile; and a profile that has
\* a stored digest gets neither authenticated nor a new digest from a call
\* that does not present its current password.
C36_AuthenticatedOnlyByPassword ==
    [][/\ (/\ prefs'.authenticatedProfileId # Null
           /\ prefs'.authenticatedProfileId # prefs.authenticatedProfileId)
              => \/ /\ last'.op = "signUpLocalAccount"
                    /\ ProfileAt(prefs'.authenticatedProfileId) = {}
                 \/ \E i \in ProfileAt(prefs'.authenticatedProfileId) :
                        PresentsCurrentPassword(i)
       /\ \A i \in 1 .. Len(profiles) :
              (/\ hasPasswordRecord(profiles[i])
               /\ profiles'[i].passwordHash # profiles[i].passwordHash)
                  => PresentsCurrentPassword(i)]_vars

\* the demo group is stored
DemoSeeded == \E i \in 1 .. Len(chats) : chats[i].title = <<"Weekend Plans">>

\* C37: the demo data is seeded at most once: over all calls of
\* seedDemoDataIfNeeded, one after the other or interleaved between two tabs
\* that start on an empty store, at most one call writes the demo profiles,
\* chats, memberships and messages (a call writes them only when they are not
\* stored yet), and a call that finds the seeded flag set or a profile stored
\* writes no record.
C37_SeededAtMostOnce ==
    [][(IsCall /\ last'.op = "seedDemoDataIfNeeded")
          => /\ (Len(pending') = Len(pending)) => UNCHANGED <<stores>>
             /\ (Len(pending') < Len(pending)) => ~DemoSeeded]_vars

\* C38: one publish causes one invocation of each subscribed handler per tab:
\* for the events a call of tab 1 publishes, the handlers of tab 2 are run at
\* most once per event, also when tab 2 receives both through the
\* BroadcastChannel and through the storage key.  (Every entry of tab2.inbox
\* is one run of emit in tab 2.)
C38_OneInvocationPerPublish ==
    [][Len(tab2'.inbox) - Len(tab2.inbox) <= Len(last'.events)]_vars

====
